---- MODULE Spec2Model ----
(***************************************************************************)
(* Retrieval pipeline of kidney-ai: searchDocuments (query cache, durable  *)
(* Pinecone backend with fallback to the in-process MemoryVectorStore,     *)
(* keyword rerank), the memoized durable handle (getPineconeStore /        *)
(* initializePinecone) and the batched sync (syncKnowledgeBase) behind the *)
(* /api/admin/sync route.                                                  *)
(*                                                                         *)
(* Every await of the source is one suspension point: an action ends where *)
(* the code suspends and the next action of the same task is the           *)
(* continuation that runs when the awaited promise settles.  A remote call *)
(* settles with success or with a thrown error, chosen by the environment. *)
(* Strings are sequences of one-character strings, so that toLowerCase,    *)
(* trim and includes are computed as the code computes them.               *)
(***************************************************************************)
EXTENDS Integers, Sequences, FiniteSets, Bags, TLC

\* ------------------------------------------------------------------ bounds
\* searchDocuments calls explored in one behaviour
MaxCalls == 3
\* clock advances explored in one behaviour
MaxTicks == 2
\* sync requests explored in one behaviour
MaxRuns == 2
\* searchDocuments calls explored in one behaviour of concurrent callers
MaxConcCalls == 2
\* failed addDocuments calls explored in one behaviour
MaxFailures == 8
\* searchDocuments calls explored in one behaviour over the four-chunk corpus
MaxRerankCalls == 1
MaxShortCalls == 1
MaxAdminRuns == 1
MaxUploads == 1
MaxDeletes == 1
MaxAdminFailures == 4
MaxMixedCalls == 2
MaxAliasCalls == 2
\* searchDocuments calls explored beside one sync run
MaxMemoCalls == 2

\* ------------------------------------------------------- program constants
CACHE_TTL == 3600000
GEMINI_DIMENSION == 768
OPENAI_DIMENSION == 3072
BATCH_SIZE == 100
DELAY_MS == 2000
MAX_RETRIES == 3
UPLOAD_BATCH_SIZE == 5
UPLOAD_DELAY_MS == 2000
UPLOAD_MAX_RETRIES == 3


\* ----------------------------------------------------------------- strings
UpperAlpha ==
    <<"A","B","C","D","E","F","G","H","I","J","K","L","M",
      "N","O","P","Q","R","S","T","U","V","W","X","Y","Z">>
LowerAlpha ==
    <<"a","b","c","d","e","f","g","h","i","j","k","l","m",
      "n","o","p","q","r","s","t","u","v","w","x","y","z">>

toLowerChar(c) ==
    IF \E i \in 1..26 : UpperAlpha[i] = c
    THEN LowerAlpha[CHOOSE i \in 1..26 : UpperAlpha[i] = c]
    ELSE c

\* String.prototype.toLowerCase
toLowerCase(s) ==
    IF Len(s) = 0 THEN <<>> ELSE [i \in 1..Len(s) |-> toLowerChar(s[i])]

IsWhiteSpace(c) == c \in {" ", "\t", "\n"}

\* String.prototype.trim
trim(s) ==
    LET keep == {i \in 1..Len(s) : ~IsWhiteSpace(s[i])}
    IN  IF keep = {} THEN <<>>
        ELSE SubSeq(s, CHOOSE i \in keep : \A j \in keep : i <= j,
                       CHOOSE i \in keep : \A j \in keep : i >= j)

\* String.prototype.includes
includes(s, k) ==
    \E i \in 0..(Len(s) - Len(k)) : SubSeq(s, i + 1, i + Len(k)) = k

\* Array.prototype.slice(0, n)
Take(s, n) == IF n >= Len(s) THEN s ELSE SubSeq(s, 1, n)

\* ------------------------------------------------------ flattenJsonToText
\* A JSON value: its type, the key it has in the object that holds it
\* (<<>> in an array or at the top), the text String(value) of a string,
\* number or boolean, and the elements of an array or the values of an
\* object in the order of Object.entries.
Json(t, k, v, items) == [t |-> t, k |-> k, v |-> v, items |-> items]
JStr(k, v) == Json("string", k, v, <<>>)
JNum(k, v) == Json("number", k, v, <<>>)
JBool(k, v) == Json("boolean", k, v, <<>>)
JNull(k) == Json("null", k, <<>>, <<>>)
JArr(k, items) == Json("array", k, <<>>, items)
JObj(k, items) == Json("object", k, <<>>, items)

\* Array.prototype.join('\n')
RECURSIVE joinLines(_)
joinLines(lines) ==
    IF Len(lines) = 0 THEN <<>>
    ELSE IF Len(lines) = 1 THEN lines[1]
    ELSE lines[1] \o <<"\n">> \o joinLines(Tail(lines))

\* flattenJsonToText(data, prefix): a string is returned as it is; an array
\* flattens each element under the same prefix; an object labels each
\* string, number and boolean value and flattens every other value under
\* its label; blank lines are dropped and the rest joined
RECURSIVE flattenJsonToText(_, _)
flattenJsonToText(data, prefix) ==
    IF data.t = "string" THEN data.v
    ELSE LET n == Len(data.items)
             lines ==
                IF n = 0 \/ data.t \notin {"array", "object"} THEN <<>>
                ELSE IF data.t = "array"
                THEN [i \in 1..n |-> flattenJsonToText(data.items[i], prefix)]
                ELSE [i \in 1..n |->
                        LET value == data.items[i]
                            label == IF Len(prefix) > 0
                                     THEN prefix \o <<" ", ">", " ">> \o value.k
                                     ELSE value.k
                        IN  IF value.t \in {"string", "number", "boolean"}
                            THEN label \o <<":", " ">> \o value.v
                            ELSE flattenJsonToText(value, label)]
         IN  joinLines(SelectSeq(lines, LAMBDA l : Len(trim(l)) > 0))

\* the leaves tried at each place of the documents below
JsonLeaves(k) ==
    {JStr(k, <<"x">>), JNum(k, <<"1">>), JNum(k, <<"2">>),
     JBool(k, <<"t","r","u","e">>), JNull(k)}

\* the documents flattened: {"a": {"b": l1, "c": [l2, l3]}} and
\* {"a": [{"b": l1}], "d": l2}, with every choice of leaves
JsonInputs ==
    {JObj(<<>>, <<JObj(<<"a">>, <<l1, JArr(<<"c">>, <<l2, l3>>)>>)>>) :
        l1 \in JsonLeaves(<<"b">>), l2 \in JsonLeaves(<<>>),
        l3 \in JsonLeaves(<<>>)}
    \cup
    {JObj(<<>>, <<JArr(<<"a">>, <<JObj(<<>>, <<l1>>)>>), l2>>) :
        l1 \in JsonLeaves(<<"b">>), l2 \in JsonLeaves(<<"d">>)}

\* {"a": {"b": "x", "c": [1, 2]}}
JsonExample ==
    JObj(<<>>, <<JObj(<<"a">>, <<JStr(<<"b">>, <<"x">>),
                                 JArr(<<"c">>, <<JNum(<<>>, <<"1">>),
                                                 JNum(<<>>, <<"2">>)>>)>>)>>)

\* --------------------------------------------------------------- documents
\* A Document: metadata.source and pageContent.
Doc(source, text) == [source |-> source, pageContent |-> text]

T_water == <<"D","r","i","n","k"," ","w","a","t","e","r",".">>
T_egfr  == <<"e","G","F","R"," ","i","s"," ","l","o","w","!">>
T_salt  == <<"E","a","t"," ","l","e","s","s"," ","s","a","l","t">>
T_dial  == <<"H","e","m","o","D","i","a","l","y","s","i","s",".">>
T_tiny  == <<" ","o","k"," ">>

\* ------------------------------------------------------------ keyword rerank
keywords ==
    << <<"c","r","e","a","t","i","n","i","n","e">>,
       <<"e","g","f","r">>,
       <<"g","f","r">>,
       <<"p","o","t","a","s","s","i","u","m">>,
       <<"h","e","m","o","d","i","a","l","y","s","i","s">>,
       <<"d","i","a","l","y","s","i","s">> >>

\* keywords.some(k => text.includes(k))
someKeyword(text) == \E j \in 1..Len(keywords) : includes(text, keywords[j])

compareBoostReversed(a, b) ==
    LET aHas == IF someKeyword(toLowerCase(a.pageContent)) THEN 1 ELSE 0
        bHas == IF someKeyword(toLowerCase(b.pageContent)) THEN 1 ELSE 0
    IN  aHas - bHas

\* the comparator handed to results.sort
compareBoost(a, b) ==
    LET aHas == IF someKeyword(toLowerCase(a.pageContent)) THEN 1 ELSE 0
        bHas == IF someKeyword(toLowerCase(b.pageContent)) THEN 1 ELSE 0
    IN  bHas - aHas

\* Array.prototype.sort is stable: x, which came after every element of
\* sorted, is placed before the first element that must follow it.
InsertStable(sorted, x) ==
    LET after == {i \in 1..Len(sorted) : compareBoost(sorted[i], x) > 0}
        at    == IF after = {} THEN Len(sorted) + 1
                 ELSE CHOOSE i \in after : \A j \in after : i <= j
    IN  SubSeq(sorted, 1, at - 1) \o <<x>> \o SubSeq(sorted, at, Len(sorted))

RECURSIVE sortBoost(_)
sortBoost(results) ==
    IF Len(results) = 0 THEN <<>>
    ELSE InsertStable(sortBoost(SubSeq(results, 1, Len(results) - 1)),
                      results[Len(results)])

\* the hybrid-search step of searchDocuments
rerank(results, normalizedQuery) ==
    IF someKeyword(normalizedQuery) THEN sortBoost(results) ELSE results

\* ---------------------------------------------------------- formatContext
NoRelevant ==
    <<"N","o"," ","r","e","l","e","v","a","n","t"," ","i","n","f","o","r","m",
      "a","t","i","o","n"," ","f","o","u","n","d"," ","i","n"," ","t","h","e",
      " ","k","n","o","w","l","e","d","g","e"," ","b","a","s","e",".">>
Unknown == <<"U","n","k","n","o","w","n">>
ContextDelimiter == <<"\n","\n","-","-","-","\n","\n">>

\* Array.prototype.join(sep)
RECURSIVE joinWith(_, _)
joinWith(parts, sep) ==
    IF Len(parts) = 0 THEN <<>>
    ELSE IF Len(parts) = 1 THEN parts[1]
    ELSE parts[1] \o sep \o joinWith(Tail(parts), sep)

\* `[Source: ${source}]\n${doc.pageContent}` with
\* source = doc.metadata.source || "Unknown"
contextBlock(doc) ==
    LET source == IF Len(doc.source) = 0 THEN Unknown ELSE doc.source
    IN  <<"[","S","o","u","r","c","e",":"," ">> \o source \o <<"]","\n">>
            \o doc.pageContent

formatContextNoSentinel(documents) ==
    joinWith([i \in DOMAIN documents |-> contextBlock(documents[i])],
             ContextDelimiter)

\* formatContext(documents)
formatContext(documents) ==
    IF Len(documents) = 0 THEN NoRelevant
    ELSE joinWith([i \in 1..Len(documents) |-> contextBlock(documents[i])],
                  ContextDelimiter)

\* the chunks formatted: with a file name, a pasted label or no source, and
\* with some, little or no content
ContextDocs ==
    {Doc(src, text) :
        src \in {<<"a",".","m","d">>, <<"m","e","m","o">>, <<>>},
        text \in {T_egfr, <<"x">>, <<>>}}

MaxContextDocs == 2

\* every list of at most MaxContextDocs of them
ContextInputs ==
    UNION {[1..n -> ContextDocs] : n \in 0..MaxContextDocs}

\* ------------------------------------------------------------------ corpus
\* A corpus file: its extension, whether its text can be extracted, and the
\* chunks the text splitter cuts it into (the splitter is a library call).
File(ext, ok, split) == [ext |-> ext, ok |-> ok, split |-> split]

E_txt  == <<".","t","x","t">>
E_md   == <<".","m","d">>
E_MD   == <<".","M","D">>
E_json == <<".","j","s","o","n">>
E_pdf  == <<".","p","d","f">>
E_docx == <<".","d","o","c","x">>
E_png  == <<".","p","n","g">>

SmallCorpus ==
    [f \in {"a.md", "b.json"} |->
        IF f = "a.md" THEN File(E_md, TRUE, <<T_water, T_egfr>>)
        ELSE File(E_json, TRUE, <<T_salt>>)]

\* a corpus whose one file splits into four chunks, two of them with a
\* vocabulary term
RerankCorpus == [f \in {"a.md"} |-> File(E_md, TRUE, <<T_water, T_egfr, T_salt, T_dial>>)]

\* a corpus whose one file splits into a chunk and a short tail
ShortCorpus == [f \in {"a.md"} |-> File(E_md, TRUE, <<T_egfr, T_tiny>>)]

\* a corpus of more than one upload batch: guide.MD splits into 204 chunks
\* and a blank tail, labs.json into 3, blank.txt into a blank chunk only,
\* bad.pdf cannot be parsed and logo.png is no document
BigCorpus ==
    [f \in {"guide.MD", "labs.json", "blank.txt", "bad.pdf", "logo.png"} |->
        CASE f = "guide.MD" ->
                File(E_MD, TRUE,
                     [i \in 1..205 |-> IF i = 205 THEN T_tiny
                                       ELSE IF i % 2 = 0 THEN T_water ELSE T_egfr])
          [] f = "labs.json" -> File(E_json, TRUE, <<T_salt, T_dial, T_salt>>)
          [] f = "blank.txt" -> File(E_txt, TRUE, <<T_tiny>>)
          [] f = "bad.pdf" -> File(E_pdf, FALSE, <<>>)
          [] OTHER -> File(E_png, TRUE, <<>>)]

E_TXT == <<".","T","X","T">>

\* a corpus of one upload batch with files that cannot be extracted:
\* manual.md splits into three chunks and a blank tail, NOTES.TXT into two
\* chunks; bad.json, bad.docx and bad.pdf cannot be parsed, logo.png is no
\* document
AdminCorpus ==
    [f \in {"manual.md", "NOTES.TXT", "bad.json", "bad.docx", "bad.pdf",
            "logo.png"} |->
        CASE f = "manual.md" ->
                File(E_md, TRUE, <<T_egfr, T_water, T_egfr, T_tiny>>)
          [] f = "NOTES.TXT" -> File(E_TXT, TRUE, <<T_salt, T_dial>>)
          [] f = "bad.json" -> File(E_json, FALSE, <<>>)
          [] f = "bad.docx" -> File(E_docx, FALSE, <<>>)
          [] f = "bad.pdf" -> File(E_pdf, FALSE, <<>>)
          [] OTHER -> File(E_png, TRUE, <<T_water>>)]

\* the x-sync-file header values explored; "gone.md" is not in the corpus
SyncFileArgs == {"guide.MD", "labs.json", "blank.txt", "gone.md", "bad.pdf",
                 "logo.png"}

\* a knowledge_base directory that is empty or missing
NoCorpus == [f \in {} |-> File(E_md, TRUE, <<>>)]

Q_GFR  == <<" ","G","F","R","?">>
Q_diet == <<"D","i","e","t"," ">>
Queries == {Q_GFR, Q_diet}
TopKs == {1, 4}

\* two spellings of one query
Q_gfr == <<"g","f","R","?"," ">>
AliasQueries == {Q_GFR, Q_gfr}

normalizeTrimOnly(query) == trim(query)

\* refinedQuery.toLowerCase().trim()
normalize(query) == trim(toLowerCase(query))
Keys == {normalize(q) : q \in Queries \cup AliasQueries}

\* ------------------------------------------------------------------- state
VARIABLES
    apiKey,         \* process.env.PINECONE_API_KEY: "unset", "placeholder", "valid"
    files,          \* the knowledge_base directory
    now,            \* Date.now()
    ticks,          \* clock advances so far
    indexExists,    \* the remote index exists
    indexDim,       \* its configured dimension
    indexRecords,   \* its records, a bag of Documents
    isIndexReady,   \* pinecone.ts module state
    isInitialized,
    cachedStore,    \* 0 (null) or the number of the handle constructed
    vectorStore,    \* vectorStore.ts module state: None or the store's documents
    queryCache,     \* normalized query -> None or [docs, timestamp]
    pc,             \* where each task is suspended
    call,           \* the locals of each searchDocuments call in progress
    callsLeft,      \* searchDocuments calls still to explore
    initRuns,       \* times initializePinecone reached describeIndex
    initOks,        \* times initializePinecone returned true
    storeBuilds,    \* times PineconeStore.fromExistingIndex was called
    storeOks,       \* times PineconeStore.fromExistingIndex returned a handle
    handle,         \* per task, the PineconeStore it is building or holds (0: none)
    lastCall,       \* per key, what the last returned searchDocuments call left
    specificFile,   \* the sync run's argument: None or the file named
    rawDocs,        \* the sync run's loaded files
    validDocs,      \* the sync run's chunks to upload
    batchStart,     \* the sync loop's i
    retries,        \* the sync loop's retries
    reports,        \* what onProgress has been called with, in order
    stream,         \* what the route has sent to its client, in order
    syncOutcome,    \* None while running, else the result returned or the error thrown
    syncLog,        \* upload attempts, reports and waits of the run, in order
    uploadBase,     \* the durable index when the run began
    runLog,         \* one entry per finished run
    runsLeft,       \* sync requests still to explore
    failuresLeft,   \* failed uploads still to explore
    adminPassword,  \* process.env.ADMIN_PASSWORD, None when unset
    request,        \* the last admin request received
    response,       \* the response it was given
    upInput,        \* the body of the upload request being served
    upDocs,         \* its chunks (docs)
    upStart,        \* index of the first chunk of its current batch (i)
    upRetries,      \* failed attempts of its current batch (retries)
    upStream,       \* the events it has sent
    upBase,         \* the durable index when the upload request began
    uploadsLeft,    \* upload requests still to explore
    deletesLeft,    \* file deletions still to explore
    fnArg,          \* the argument of the helper function under study
    fnResult        \* what it returned, None before the call

Searchers == {"s1", "s2"}
SyncTask == "sync"
UploadTask == "upload"
Tasks == Searchers \cup {SyncTask, UploadTask}

fnVars == <<fnArg, fnResult>>
envVars == <<apiKey, files, adminPassword, fnVars>>
clockVars == <<now, ticks>>
remoteVars == <<indexExists, indexDim, indexRecords>>
memoVars == <<isIndexReady, isInitialized, cachedStore, initRuns, initOks,
              storeBuilds, storeOks, handle>>
searchVars == <<vectorStore, queryCache, call, callsLeft, lastCall>>
syncVars == <<specificFile, rawDocs, validDocs, batchStart, retries, reports,
              stream, syncOutcome, syncLog, uploadBase, runLog, runsLeft,
              failuresLeft>>
httpVars == <<request, response, deletesLeft>>
uploadVars == <<upInput, upDocs, upStart, upRetries, upStream, upBase,
                uploadsLeft>>
vars == <<envVars, clockVars, remoteVars, memoVars, searchVars, syncVars,
          httpVars, uploadVars, pc>>

\* An optional value: <<>> is null/undefined, <<x>> is x.
None == <<>>
Some(x) == <<x>>

\* ------------------------------------------------------ similarity search
\* similaritySearch(query, k) returns the k nearest documents.  The ranking
\* is the embedding model's: any order of the stored documents.
Rankings(bag) ==
    LET n == BagCardinality(bag)
    IN  IF n = 0 THEN {<<>>}
        ELSE {s \in [1..n -> BagToSet(bag)] :
                \A d \in BagToSet(bag) :
                    Cardinality({i \in 1..n : s[i] = d}) = bag[d]}

Answers(bag, k) == {Take(r, k) : r \in Rankings(bag)}

\* the documents of a list as records of the index: each as often as listed
BagOfSeq(s) ==
    [d \in {s[i] : i \in 1..Len(s)} |-> Cardinality({i \in 1..Len(s) : s[i] = d})]

\* the Documents one file contributes, in split order
DocsOf(fs, f) ==
    IF Len(fs[f].split) = 0 THEN <<>>
    ELSE [i \in 1..Len(fs[f].split) |-> Doc(f, fs[f].split[i])]

RECURSIVE Flatten(_)
Flatten(ss) == IF Len(ss) = 0 THEN <<>> ELSE Head(ss) \o Flatten(Tail(ss))

\* fs.readdirSync: the directory's names in a fixed order
RECURSIVE SortedNames(_)
SortedNames(S) ==
    IF S = {} THEN <<>>
    ELSE LET f == CHOOSE x \in S : TRUE IN <<f>> \o SortedNames(S \ {f})

readdirSync(fs) == SortedNames(DOMAIN fs)

\* vectorStore.ts loadDocuments: .txt and .md always, .pdf when it parses;
\* every other file is skipped.
loadDocuments(fs) ==
    SelectSeq(readdirSync(fs),
              LAMBDA f : \/ toLowerCase(fs[f].ext) \in {E_txt, E_md}
                         \/ toLowerCase(fs[f].ext) = E_pdf /\ fs[f].ok)

\* vectorStore.ts splitDocuments over the loaded files: no length filter
splitDocuments(fs, names) ==
    Flatten([i \in 1..Len(names) |-> DocsOf(fs, names[i])])

loadLocalDocumentsAllOrNothing(fs, arg) ==
    LET names == IF arg # None
                 THEN SelectSeq(<<arg[1]>>, LAMBDA f : f \in DOMAIN fs)
                 ELSE readdirSync(fs)
        supported == SelectSeq(names,
            LAMBDA f : toLowerCase(fs[f].ext)
                            \in {E_txt, E_md, E_pdf, E_docx, E_json})
    IN  IF \E j \in 1..Len(supported) : ~fs[supported[j]].ok
        THEN <<>> ELSE supported

loadLocalDocumentsWholeDirectory(fs, arg) ==
    SelectSeq(readdirSync(fs),
        LAMBDA f :
            LET ext == toLowerCase(fs[f].ext)
            IN  /\ ext \in {E_txt, E_md, E_pdf, E_docx, E_json}
                /\ ext \in {E_docx, E_pdf, E_json} => fs[f].ok)

\* pinecone.ts loadLocalDocuments: the file named, when it exists, or the
\* whole directory; a supported extension in any letter case; a file whose
\* text cannot be extracted is logged and skipped
loadLocalDocuments(fs, arg) ==
    LET names == IF arg # None
                 THEN SelectSeq(<<arg[1]>>, LAMBDA f : f \in DOMAIN fs)
                 ELSE readdirSync(fs)
    IN  SelectSeq(names,
            LAMBDA f :
                LET ext == toLowerCase(fs[f].ext)
                IN  /\ ext \in {E_txt, E_md, E_pdf, E_docx, E_json}
                    /\ ext \in {E_docx, E_pdf, E_json} => fs[f].ok)

\* splitDocs.filter(doc => doc.pageContent.trim().length > 10)
filterValid(splitDocs) ==
    SelectSeq(splitDocs, LAMBDA d : Len(trim(d.pageContent)) > 10)

\* ------------------------------------------------------- syncKnowledgeBase
\* Math.ceil(n / d)
ceilDiv(n, d) == (n + d - 1) \div d

\* Math.round(c / n), the factor 100 left out
percentOfFraction(c, n) == (2 * c + n) \div (2 * n)

\* Math.round((c / n) * 100)
percentOf(c, n) == (200 * c + n) \div (2 * n)

pow2Flat(e) == 1

\* Math.pow(2, e)
RECURSIVE pow2(_)
pow2(e) == IF e = 0 THEN 1 ELSE 2 * pow2(e - 1)

exhaustedLate(r) == r > MAX_RETRIES + 1
exhaustedNever(r) == FALSE

\* if (retries > MAX_RETRIES) throw batchError
exhausted(r) == r > MAX_RETRIES

\* the argument of onProgress; status <<>> is an absent status
Report(batch, totalBatches, chunksIndexed, totalChunks, percent, status) ==
    [batch |-> batch, totalBatches |-> totalBatches,
     chunksIndexed |-> chunksIndexed, totalChunks |-> totalChunks,
     percent |-> percent, status |-> status]

onProgressSkipsRetry(reps, info) ==
    IF info.status # <<>> /\ info.status[1] = "Retry" THEN reps
    ELSE Append(reps, info)

\* onProgress?.(info): the caller is handed one more report
onProgress(reps, info) == Append(reps, info)

\* what a sync run settles with: the value returned or the error thrown
Returned(totalChunks, fileCount) ==
    [kind |-> "returned", totalChunks |-> totalChunks,
     fileCount |-> fileCount, error |-> ""]
Thrown(error) ==
    [kind |-> "raised", totalChunks |-> 0, fileCount |-> 0, error |-> error]

\* an entry of the run's log: an upload attempt and how it ended, a report
\* (n: its place in reports) or a wait (n: its milliseconds)
Ev(ev, batch, n) == [ev |-> ev, batch |-> batch, n |-> n]

\* the route's (progress) => send({ type: 'progress', ...progress })
progressEvents(reps) ==
    IF Len(reps) = 0 THEN <<>>
    ELSE [j \in 1..Len(reps) |-> [type |-> "progress", body |-> reps[j]]]

\* the locals of the sync run that outlive its awaits
syncFrame == [rawDocs |-> rawDocs, validDocs |-> validDocs]

\* the sync run goes on to its next await, or settles
syncStep(label, c, i, r, reps, log, outcome) ==
    /\ pc' = [pc EXCEPT ![SyncTask] = label]
    /\ rawDocs' = c.rawDocs
    /\ validDocs' = c.validDocs
    /\ batchStart' = i
    /\ retries' = r
    /\ reports' = reps
    /\ stream' = progressEvents(reps)
    /\ syncLog' = log
    /\ syncOutcome' = outcome
    /\ UNCHANGED <<specificFile, uploadBase, runLog, runsLeft>>

syncStoreReturnedSwallow(c, ok) ==
    LET N == Len(c.validDocs)
        info == Report(0, ceilDiv(N, BATCH_SIZE), 0, N, 0,
                       <<"Starting", N, Len(c.rawDocs)>>)
    IN  /\ IF ~ok \/ N = 0
           THEN syncStep("sync_settled", c, 0, 0, <<info>>,
                         <<Ev("report", 0, 1)>>,
                         Some(Returned(N, Len(c.rawDocs))))
           ELSE syncStep("sync_upload", c, 0, 0, <<info>>,
                         <<Ev("report", 0, 1)>>, None)
        /\ UNCHANGED failuresLeft

\* syncKnowledgeBase after `await getPineconeStore()`: the first report,
\* then the first upload; with no valid chunk the loop is skipped
syncStoreReturned(c, ok) ==
    LET N == Len(c.validDocs)
        info == Report(0, ceilDiv(N, BATCH_SIZE), 0, N, 0,
                       <<"Starting", N, Len(c.rawDocs)>>)
    IN  /\ IF ~ok
           THEN syncStep("sync_settled", c, 0, 0, <<>>, <<>>,
                         Some(Thrown("getPineconeStore")))
           ELSE IF N = 0
           THEN syncStep("sync_settled", c, 0, 0, <<info>>,
                         <<Ev("report", 0, 1)>>,
                         Some(Returned(N, Len(c.rawDocs))))
           ELSE syncStep("sync_upload", c, 0, 0, <<info>>,
                         <<Ev("report", 0, 1)>>, None)
        /\ UNCHANGED failuresLeft

\* ------------------------------------------------------- admin requests
\* the x-admin-password header of a request, None when absent
Headers == {None, Some("wrong"), Some("secret")}

\* the x-sync-file and ?name= values explored with AdminCorpus
AdminSyncArgs == {None, Some("NOTES.TXT"), Some("logo.png")}
AdminDeleteArgs == {None, Some("NOTES.TXT"), Some("gone.md")}

unauthorizedIfPresent(password) ==
    password # None /\ (adminPassword = None \/ password[1] # adminPassword[1])

\* !password || password !== process.env.ADMIN_PASSWORD
unauthorized(password) ==
    password = None \/ password[1] = "" \/ adminPassword = None
        \/ password[1] # adminPassword[1]

\* the stats route: password !== process.env.ADMIN_PASSWORD, where an absent
\* header is null and an unset variable undefined
unauthorizedStats(password) ==
    password = None \/ adminPassword = None \/ password[1] # adminPassword[1]

Request(endpoint, header) == [endpoint |-> endpoint, header |-> header]
Response(status, error, value) ==
    [status |-> status, error |-> error, value |-> value]

\* no streaming request is being served
adminIdle ==
    pc[SyncTask] \in {"idle", "closed"} /\ pc[UploadTask] \in {"idle", "closed"}

\* ---------------------------------------------------- processFileBuffer
\* what a processing call gives: its chunks, or the error it throws
Parsed(threw, docs) == [threw |-> threw, docs |-> docs]

\* the chunks of one document, each with the document's source
asDocuments(source, split) ==
    IF Len(split) = 0 THEN <<>>
    ELSE [i \in 1..Len(split) |-> Doc(source, split[i])]

processFileBufferAsText(f, filename) ==
    Parsed(FALSE, filterValid(asDocuments(filename, f.split)))

\* processFileBuffer(buffer, filename): the extension in lower case picks
\* the extraction; no document, no chunk; chunks of trimmed length <= 10
\* are dropped
processFileBuffer(f, filename) ==
    LET ext == toLowerCase(f.ext)
    IN  IF ext \in {E_txt, E_md}
        THEN Parsed(FALSE, filterValid(asDocuments(filename, f.split)))
        ELSE IF ext \in {E_json, E_pdf, E_docx}
        THEN IF f.ok
             THEN Parsed(FALSE, filterValid(asDocuments(filename, f.split)))
             ELSE Parsed(TRUE, <<>>)
        ELSE Parsed(FALSE, <<>>)

\* processRawText(text, sourceLabel): one document, split, filtered
processRawText(split, sourceLabel) ==
    Parsed(FALSE, filterValid(asDocuments(sourceLabel, split)))

\* ------------------------------------------------ POST /api/admin/upload
\* the body of an upload request: JSON { text, sourceLabel } or a form with
\* a file; given is FALSE when the text or the file is missing, label is
\* the sourceLabel or the file's name, big a file above 4 MB
UploadBody(json, given, label, big, file) ==
    [json |-> json, given |-> given, label |-> label, big |-> big,
     file |-> file]

E_PNG == <<".","P","N","G">>
E_none == <<>>
T_ten == <<"T","e","n"," ","c","h","a","r","s",".">>
T_eleven == <<"E","l","e","v","e","n"," ","c","h","r","s">>

\* the bodies explored: a text file of two batches, files that are no
\* document, a file that cannot be parsed, a file of blank chunks only, a
\* form without a file, and a pasted text
UploadBodies ==
    { UploadBody(FALSE, TRUE, "NOTE.TXT", FALSE,
                 File(E_TXT, TRUE, <<T_dial, T_salt, T_tiny, T_eleven, T_ten,
                                     T_salt, T_dial, T_egfr>>)),
      UploadBody(FALSE, TRUE, "pic.PNG", FALSE, File(E_PNG, TRUE, <<T_water>>)),
      UploadBody(FALSE, TRUE, "README", FALSE, File(E_none, TRUE, <<T_water>>)),
      UploadBody(FALSE, TRUE, "bad.json", FALSE, File(E_json, FALSE, <<>>)),
      UploadBody(FALSE, TRUE, "tiny.md", FALSE, File(E_md, TRUE, <<T_tiny, T_ten>>)),
      UploadBody(FALSE, FALSE, "", FALSE, File(E_none, TRUE, <<>>)),
      UploadBody(TRUE, TRUE, "memo", FALSE, File(E_none, TRUE, <<T_salt, T_tiny>>)) }

NoBody == UploadBody(FALSE, FALSE, "", FALSE, File(E_none, TRUE, <<>>))

\* an event of the upload stream: start (batch: totalBatches, a:
\* totalChunks), progress (a: chunksIndexed, b: percent), retry (a: retry,
\* b: backoffMs), error, done (a: chunks)
UpEv(type, batch, a, b, error) ==
    [type |-> type, batch |-> batch, a |-> a, b |-> b, error |-> error]

\* the locals of the upload request that outlive its awaits
upFrame == [docs |-> upDocs, input |-> upInput]

\* the upload request goes on to its next await, or closes its stream
uploadStep(label, c, i, r, evs) ==
    /\ pc' = [pc EXCEPT ![UploadTask] = label]
    /\ upDocs' = c.docs
    /\ upInput' = c.input
    /\ upStart' = i
    /\ upRetries' = r
    /\ upStream' = evs
    /\ UNCHANGED <<upBase, uploadsLeft>>

\* the stream's start(controller) after `await getPineconeStore()`: the
\* start event, then the first upload; a throw is sent as an error event
uploadStoreReturned(c, ok) ==
    LET N == Len(c.docs)
    IN  IF ~ok
        THEN uploadStep("closed", c, 0, 0,
                        <<UpEv("error", 0, 0, 0, "getPineconeStore")>>)
        ELSE uploadStep("up_upload", c, 0, 0,
                        <<UpEv("start", ceilDiv(N, UPLOAD_BATCH_SIZE), N, 0, "")>>)

\* ------------------------------------------------------ searchDocuments
IdleCall ==
    [query |-> <<>>, topK |-> 0, key |-> <<>>, hit |-> FALSE,
     durable |-> "none", ephemeral |-> "none", ephArgs |-> None,
     splitDocs |-> <<>>, store |-> None, raw |-> <<>>, ret |-> <<>>,
     outcome |-> "none", startNow |-> 0, startEntry |-> None,
     startIndex |-> None, startFiles |-> {}, prev |-> None]

IndexSnapshot == [exists |-> indexExists, dim |-> indexDim, records |-> indexRecords]

cacheFreshHalfTTL(cached) ==
    cached # None /\ now - cached[1].timestamp < CACHE_TTL \div 2

cacheFreshNoExpiry(cached) == cached # None

cacheFreshUntilSync(cached) ==
    cached # None /\ now - cached[1].timestamp < CACHE_TTL /\ runLog = <<>>

\* cached && (Date.now() - cached.timestamp < CACHE_TTL)
cacheFresh(cached) ==
    cached # None /\ now - cached[1].timestamp < CACHE_TTL

\* the test without its comparison with the placeholder
isPineconeConfiguredAnyKey == apiKey # "unset"

\* isPineconeConfigured
isPineconeConfigured == apiKey \notin {"unset", "placeholder"}

\* a save that also drops the entries that have expired
SettleEvicting(t, c, results) ==
    LET ret == rerank(results, c.key)
    IN  /\ queryCache' = [k \in Keys |->
                IF k = c.key THEN Some([docs |-> ret, timestamp |-> now])
                ELSE IF cacheFresh(queryCache[k]) THEN queryCache[k]
                ELSE None]
        /\ call' = [call EXCEPT ![t] =
                            [c EXCEPT !.raw = results, !.ret = ret,
                                      !.outcome = "returned"]]
        /\ lastCall' = [lastCall EXCEPT ![c.key] =
                            Some([docs |-> ret, at |-> now, stamp |-> now,
                                  query |-> c.query])]
        /\ pc' = [pc EXCEPT ![t] = "done"]

\* the call returns results to its caller: rerank, save to cache, return
Settle(t, c, results) ==
    LET ret == rerank(results, c.key)
    IN  /\ queryCache' = [queryCache EXCEPT ![c.key] =
                            Some([docs |-> ret, timestamp |-> now])]
        /\ call' = [call EXCEPT ![t] =
                            [c EXCEPT !.raw = results, !.ret = ret,
                                      !.outcome = "returned"]]
        /\ lastCall' = [lastCall EXCEPT ![c.key] =
                            Some([docs |-> ret, at |-> now, stamp |-> now,
                                  query |-> c.query])]
        /\ pc' = [pc EXCEPT ![t] = "done"]

\* the call ends by throwing to its caller
Raise(t, c) ==
    /\ call' = [call EXCEPT ![t] = [c EXCEPT !.outcome = "raised"]]
    /\ pc' = [pc EXCEPT ![t] = "done"]
    /\ UNCHANGED <<queryCache, lastCall>>

ephemeralRethrow(t, c) == Raise(t, c)

\* catch (localError) / catch (error) around the ephemeral search: log only,
\* results stays []
ephemeralCatch(t, c) == Settle(t, c, <<>>)

\* getVectorStore() up to its first await, continued by the caller when the
\* store is already there
callVectorStore(t, c) ==
    IF vectorStore # None
    THEN /\ pc' = [pc EXCEPT ![t] = "eph_search"]
         /\ call' = [call EXCEPT ![t] =
                [c EXCEPT !.store = vectorStore,
                          !.ephArgs = Some([query |-> c.query, topK |-> c.topK])]]
    ELSE /\ pc' = [pc EXCEPT ![t] = "vs_load"]
         /\ call' = [call EXCEPT ![t] = c]

durableGiveUp(t, c) == Settle(t, [c EXCEPT !.durable = "failed"], <<>>)

\* catch (error) around the durable search: fall back to the local store
durableCatch(t, c) ==
    /\ callVectorStore(t, [c EXCEPT !.durable = "failed"])
    /\ UNCHANGED <<queryCache, lastCall>>

\* the searchDocuments continuation after `await getPineconeStore()`
searchStoreReturned(t, c, ok) ==
    IF ok
    THEN /\ pc' = [pc EXCEPT ![t] = "durable_search"]
         /\ call' = [call EXCEPT ![t] = c]
         /\ UNCHANGED <<queryCache, lastCall>>
    ELSE durableCatch(t, c)

\* the continuation of whoever awaits getPineconeStore()
storeReturned(t, c, ok) ==
    IF t \in Searchers
    THEN searchStoreReturned(t, c, ok) /\ UNCHANGED <<syncVars, uploadVars>>
    ELSE IF t = SyncTask
    THEN /\ syncStoreReturned(c, ok)
         /\ UNCHANGED <<call, queryCache, lastCall, uploadVars>>
    ELSE /\ uploadStoreReturned(c, ok)
         /\ UNCHANGED <<call, queryCache, lastCall, syncVars>>

\* the task stays inside getPineconeStore, suspended at another await
goto(t, c, label) ==
    /\ pc' = [pc EXCEPT ![t] = label]
    /\ IF t \in Searchers
       THEN /\ call' = [call EXCEPT ![t] = c]
            /\ UNCHANGED <<syncVars, uploadVars>>
       ELSE IF t = SyncTask
       THEN /\ rawDocs' = c.rawDocs
            /\ validDocs' = c.validDocs
            /\ UNCHANGED <<call, specificFile, batchStart, retries, reports,
                           stream, syncOutcome, syncLog, uploadBase, runLog,
                           runsLeft, failuresLeft, uploadVars>>
       ELSE /\ upDocs' = c.docs
            /\ upInput' = c.input
            /\ UNCHANGED <<call, syncVars, upStart, upRetries, upStream,
                           upBase, uploadsLeft>>
    /\ UNCHANGED <<queryCache, lastCall>>

\* the locals of the caller of getPineconeStore
frame(t) ==
    IF t \in Searchers THEN call[t]
    ELSE IF t = SyncTask THEN syncFrame ELSE upFrame

\* ------------------------------------------------------ getPineconeStore
\* getPineconeStore from `const pinecone = getPineconeClient()` to the await
\* of PineconeStore.fromExistingIndex
constructStore(t, c) ==
    IF apiKey = "unset"
    THEN /\ storeReturned(t, c, FALSE)
         /\ handle' = [handle EXCEPT ![t] = 0]
         /\ UNCHANGED storeBuilds
    ELSE /\ goto(t, c, "gps_construct")
         /\ storeBuilds' = storeBuilds + 1
         /\ handle' = [handle EXCEPT ![t] = storeBuilds + 1]

\* getPineconeStore from its first line to its first await, or to its return
enterPineconeStore(t, c) ==
    IF ~isIndexReady
    THEN IF apiKey = "unset"
         THEN \* initializePinecone: getPineconeClient throws
              /\ storeReturned(t, c, FALSE)
              /\ handle' = [handle EXCEPT ![t] = 0]
              /\ UNCHANGED <<isIndexReady, isInitialized, cachedStore, initRuns,
                             initOks, storeBuilds, storeOks>>
         ELSE \* initializePinecone: await pc.describeIndex(indexName)
              /\ goto(t, c, "init_describe")
              /\ initRuns' = initRuns + 1
              /\ UNCHANGED <<isIndexReady, isInitialized, cachedStore, initOks,
                             storeBuilds, storeOks, handle>>
    ELSE IF isInitialized /\ cachedStore # 0
         THEN /\ storeReturned(t, c, TRUE)
              /\ handle' = [handle EXCEPT ![t] = cachedStore]
              /\ UNCHANGED <<isIndexReady, isInitialized, cachedStore, initRuns,
                             initOks, storeBuilds, storeOks>>
         ELSE /\ constructStore(t, c)
              /\ UNCHANGED <<isIndexReady, isInitialized, cachedStore, initRuns,
                             initOks, storeOks>>

\* getPineconeStore after `await initializePinecone()`: store the answer,
\* reset isInitialized, then throw when not ready or build the handle
afterInitialize(t, c, ready) ==
    /\ isIndexReady' = ready
    /\ isInitialized' = FALSE
    /\ initOks' = IF ready THEN initOks + 1 ELSE initOks
    /\ IF ~ready
       THEN /\ storeReturned(t, c, FALSE)
            /\ handle' = [handle EXCEPT ![t] = 0]
            /\ UNCHANGED storeBuilds
       ELSE constructStore(t, c)
    /\ UNCHANGED <<cachedStore, initRuns, storeOks>>

\* a remote call can succeed only with a real key
remoteUp == apiKey = "valid"

searchFrame == UNCHANGED <<envVars, clockVars, vectorStore, callsLeft, httpVars>>

\* initializePinecone: describeIndex settles
InitDescribeDone(t) ==
    /\ pc[t] = "init_describe"
    /\ \/ /\ remoteUp /\ indexExists
          /\ IF indexDim # GEMINI_DIMENSION
             THEN \* await pc.deleteIndex(indexName)
                  goto(t, frame(t), "init_delete") /\ UNCHANGED memoVars
             ELSE afterInitialize(t, frame(t), TRUE)
       \/ \* describeIndex throws: catch, await pc.createIndex
          goto(t, frame(t), "init_create_catch") /\ UNCHANGED memoVars
    /\ UNCHANGED remoteVars
    /\ searchFrame

\* initializePinecone: deleteIndex settles
InitDeleteDone(t) ==
    /\ pc[t] = "init_delete"
    /\ \/ /\ remoteUp /\ indexExists
          /\ indexExists' = FALSE
          /\ indexRecords' = EmptyBag
          /\ UNCHANGED indexDim
          /\ goto(t, frame(t), "init_wait")
       \/ /\ goto(t, frame(t), "init_create_catch")
          /\ UNCHANGED remoteVars
    /\ UNCHANGED memoVars
    /\ searchFrame

\* initializePinecone: the 5 s wait for the deletion ends, await createIndex
InitWaitDone(t) ==
    /\ pc[t] = "init_wait"
    /\ goto(t, frame(t), "init_create")
    /\ UNCHANGED <<memoVars, remoteVars>>
    /\ searchFrame

createIndex ==
    /\ remoteUp /\ ~indexExists
    /\ indexExists' = TRUE
    /\ indexDim' = GEMINI_DIMENSION
    /\ indexRecords' = EmptyBag

\* initializePinecone: createIndex of the try block settles
InitCreateDone(t) ==
    /\ pc[t] = "init_create"
    /\ \/ createIndex /\ afterInitialize(t, frame(t), TRUE)
       \/ goto(t, frame(t), "init_create_catch") /\ UNCHANGED <<memoVars, remoteVars>>
    /\ searchFrame

\* initializePinecone: createIndex of the catch block settles
InitCreateCatchDone(t) ==
    /\ pc[t] = "init_create_catch"
    /\ \/ createIndex /\ afterInitialize(t, frame(t), TRUE)
       \/ afterInitialize(t, frame(t), FALSE) /\ UNCHANGED remoteVars
    /\ searchFrame

\* getPineconeStore: PineconeStore.fromExistingIndex settles
StoreConstructed(t) ==
    /\ pc[t] = "gps_construct"
    /\ \/ /\ cachedStore' = handle[t]
          /\ isInitialized' = TRUE
          /\ storeOks' = storeOks + 1
          /\ storeReturned(t, frame(t), TRUE)
          /\ UNCHANGED handle
       \/ /\ storeReturned(t, frame(t), FALSE)
          /\ handle' = [handle EXCEPT ![t] = 0]
          /\ UNCHANGED <<cachedStore, isInitialized, storeOks>>
    /\ UNCHANGED <<isIndexReady, initRuns, initOks, storeBuilds, remoteVars>>
    /\ searchFrame

\* ------------------------------------------------- searchDocuments steps
memoFrame == UNCHANGED <<memoVars, remoteVars, syncVars, uploadVars>>

\* searchDocuments(query, topK) from its first line to its first await, or
\* to its return on a cache hit
searchDocuments(t, query, topK) ==
    /\ pc[t] = "idle"
    /\ callsLeft > 0
    /\ callsLeft' = callsLeft - 1
    /\  LET normalizedQuery == normalize(query)
            cached == queryCache[normalizedQuery]
            c == [IdleCall EXCEPT !.query = query, !.topK = topK,
                                  !.key = normalizedQuery, !.startNow = now,
                                  !.startEntry = cached,
                                  !.startIndex = Some(IndexSnapshot),
                                  !.startFiles = DOMAIN files,
                                  !.prev = lastCall[normalizedQuery]]
        IN  IF cacheFresh(cached)
            THEN /\ call' = [call EXCEPT ![t] =
                        [c EXCEPT !.hit = TRUE, !.ret = cached[1].docs,
                                  !.outcome = "returned"]]
                 /\ lastCall' = [lastCall EXCEPT ![normalizedQuery] =
                        Some([docs |-> cached[1].docs, at |-> now,
                              stamp |-> cached[1].timestamp,
                              query |-> query])]
                 /\ pc' = [pc EXCEPT ![t] = "done"]
                 /\ UNCHANGED <<queryCache, memoVars, syncVars, uploadVars>>
            ELSE IF isPineconeConfigured
            THEN enterPineconeStore(t, c)
            ELSE /\ callVectorStore(t, c)
                 /\ UNCHANGED <<queryCache, lastCall, memoVars, syncVars,
                                uploadVars>>
    /\ UNCHANGED <<envVars, clockVars, remoteVars, vectorStore, httpVars>>

\* a call with one of the queries and limits explored
SearchStart(t) ==
    \E query \in Queries, topK \in TopKs : searchDocuments(t, query, topK)

\* a call with one of the two spellings
AliasStart(t) ==
    \E query \in AliasQueries, topK \in TopKs : searchDocuments(t, query, topK)

\* searchDocuments: pineconeStore.similaritySearch(query, topK) settles
DurableSearchDone(t) ==
    /\ pc[t] = "durable_search"
    /\ \/ /\ remoteUp /\ indexExists /\ indexDim = GEMINI_DIMENSION
          /\ \E results \in Answers(indexRecords, call[t].topK) :
                Settle(t, [call[t] EXCEPT !.durable = "ok"], results)
       \/ durableCatch(t, call[t])
    /\ memoFrame
    /\ searchFrame

\* getVectorStore: loadDocuments settles; an empty corpus gives an empty
\* store at once, otherwise splitDocuments and fromDocuments are awaited
VsLoadDone(t) ==
    /\ pc[t] = "vs_load"
    /\ LET loaded == loadDocuments(files)
       IN  IF Len(loaded) = 0
           THEN /\ vectorStore' = Some(<<>>)
                /\ pc' = [pc EXCEPT ![t] = "eph_search"]
                /\ call' = [call EXCEPT ![t].store = Some(<<>>),
                        ![t].ephArgs = Some([query |-> call[t].query,
                                             topK |-> call[t].topK])]
           ELSE /\ pc' = [pc EXCEPT ![t] = "vs_build"]
                /\ call' = [call EXCEPT ![t].splitDocs =
                                splitDocuments(files, loaded)]
                /\ UNCHANGED vectorStore
    /\ UNCHANGED <<queryCache, lastCall, callsLeft>>
    /\ memoFrame
    /\ UNCHANGED <<envVars, clockVars, httpVars>>

\* getVectorStore: MemoryVectorStore.fromDocuments settles; the caller then
\* awaits store.similaritySearch(query, topK)
VsBuildDone(t) ==
    /\ pc[t] = "vs_build"
    /\ \/ /\ vectorStore' = Some(call[t].splitDocs)
          /\ pc' = [pc EXCEPT ![t] = "eph_search"]
          /\ call' = [call EXCEPT ![t].store = Some(call[t].splitDocs),
                        ![t].ephArgs = Some([query |-> call[t].query,
                                             topK |-> call[t].topK])]
          /\ UNCHANGED <<queryCache, lastCall>>
       \/ /\ ephemeralCatch(t, [call[t] EXCEPT !.ephemeral = "failed"])
          /\ UNCHANGED vectorStore
    /\ UNCHANGED callsLeft
    /\ memoFrame
    /\ UNCHANGED <<envVars, clockVars, httpVars>>

\* searchDocuments: store.similaritySearch(query, topK) settles
EphSearchDone(t) ==
    /\ pc[t] = "eph_search"
    /\ \/ \E results \in Answers(BagOfSeq(call[t].store[1]), call[t].topK) :
                Settle(t, [call[t] EXCEPT !.ephemeral = "ok"], results)
       \/ ephemeralCatch(t, [call[t] EXCEPT !.ephemeral = "failed"])
    /\ memoFrame
    /\ searchFrame

\* the caller has taken the call's result
SearchReturn(t) ==
    /\ pc[t] = "done"
    /\ pc' = [pc EXCEPT ![t] = "idle"]
    /\ call' = [call EXCEPT ![t] = IdleCall]
    /\ UNCHANGED <<queryCache, lastCall, callsLeft, vectorStore>>
    /\ memoFrame
    /\ UNCHANGED <<envVars, clockVars, httpVars>>

\* time passes, a little more than half the cache's time to live at a time
TickMs == CACHE_TTL \div 2 + 1

Tick ==
    /\ ticks < MaxTicks
    /\ ticks' = ticks + 1
    /\ now' = now + TickMs
    /\ UNCHANGED <<envVars, remoteVars, memoVars, searchVars, syncVars,
                   httpVars, uploadVars, pc>>

\* ------------------------------------------------------ sync request steps
syncFrameVars ==
    UNCHANGED <<envVars, clockVars, memoVars, searchVars, httpVars, uploadVars>>

\* everything but the record of the request and its response
effectVars == <<envVars, clockVars, remoteVars, memoVars, searchVars,
                syncVars, uploadVars, deletesLeft, pc>>

\* a request is turned away with its status and error: nothing else happens
refuse(req, status, error) ==
    /\ request' = req
    /\ response' = Some(Response(status, error, <<>>))
    /\ UNCHANGED effectVars

\* POST /api/admin/sync with this x-admin-password and x-sync-file: 401, or
\* the stream starts and syncKnowledgeBase runs to
\* `await loadLocalDocuments(specificFile)`
SyncRequest(header, arg) ==
    /\ adminIdle
    /\ runsLeft > 0
    /\ IF unauthorized(header)
       THEN refuse(Request("sync", header), 401, "Unauthorized")
       ELSE /\ request' = Request("sync", header)
            /\ response' = Some(Response(200, "", "stream"))
            /\ runsLeft' = runsLeft - 1
            /\ specificFile' = arg
            /\ uploadBase' = Some(IndexSnapshot)
            /\ rawDocs' = <<>>
            /\ validDocs' = <<>>
            /\ batchStart' = 0
            /\ retries' = 0
            /\ reports' = <<>>
            /\ stream' = <<>>
            /\ syncLog' = <<>>
            /\ syncOutcome' = None
            /\ pc' = [pc EXCEPT ![SyncTask] = "sync_load"]
            /\ UNCHANGED <<runLog, failuresLeft, remoteVars, deletesLeft>>
            /\ UNCHANGED <<envVars, clockVars, memoVars, searchVars, uploadVars>>

\* a sync request of the administrator, who knows the password
SyncStart ==
    \E arg \in {None} \cup {Some(f) : f \in SyncFileArgs} :
        SyncRequest(adminPassword, arg)

\* syncKnowledgeBase without the early return of an empty load
SyncLoadDoneGoesOn ==
    /\ pc[SyncTask] = "sync_load"
    /\ LET loaded == loadLocalDocuments(files, specificFile)
       IN  syncStep("sync_split", [syncFrame EXCEPT !.rawDocs = loaded],
                         0, 0, <<>>, <<>>, None)
    /\ UNCHANGED <<failuresLeft, remoteVars>>
    /\ syncFrameVars

\* syncKnowledgeBase: splitDocuments settles; filter, then getPineconeStore()

\* syncKnowledgeBase: loadLocalDocuments settles; nothing loaded returns
\* { 0, 0 }, otherwise splitter.splitDocuments is awaited
SyncLoadDone ==
    /\ pc[SyncTask] = "sync_load"
    /\ LET loaded == loadLocalDocuments(files, specificFile)
       IN  IF Len(loaded) = 0
           THEN syncStep("sync_settled", syncFrame, 0, 0, <<>>, <<>>,
                         Some(Returned(0, 0)))
           ELSE syncStep("sync_split", [syncFrame EXCEPT !.rawDocs = loaded],
                         0, 0, <<>>, <<>>, None)
    /\ UNCHANGED <<failuresLeft, remoteVars>>
    /\ syncFrameVars

\* syncKnowledgeBase: splitDocuments settles; filter, then getPineconeStore()
SyncSplitDone ==
    /\ pc[SyncTask] = "sync_split"
    /\ enterPineconeStore(SyncTask,
            [syncFrame EXCEPT !.validDocs =
                filterValid(splitDocuments(files, rawDocs))])
    /\ UNCHANGED <<envVars, clockVars, remoteVars, vectorStore, callsLeft,
                   httpVars>>

\* syncKnowledgeBase: pineconeStore.addDocuments(batch) settles.  A failed
\* call leaves no record of the batch.
SyncUploadDone ==
    /\ pc[SyncTask] = "sync_upload"
    /\ LET N == Len(validDocs)
           i == batchStart
           batch == SubSeq(validDocs, i + 1,
                           IF i + BATCH_SIZE < N THEN i + BATCH_SIZE ELSE N)
           batchNum == i \div BATCH_SIZE + 1
           totalBatches == ceilDiv(N, BATCH_SIZE)
       IN  \/ /\ remoteUp /\ indexExists /\ indexDim = GEMINI_DIMENSION
              /\ indexRecords' = indexRecords (+) BagOfSeq(batch)
              /\ UNCHANGED <<indexExists, indexDim, failuresLeft>>
              /\ LET chunksIndexed == i + Len(batch)
                     info == Report(batchNum, totalBatches, chunksIndexed, N,
                                    percentOf(chunksIndexed, N), <<>>)
                     reps == onProgress(reports, info)
                     log == syncLog \o <<Ev("upload_ok", batchNum, Len(batch)),
                                         Ev("report", batchNum, Len(reps))>>
                 IN  IF i + BATCH_SIZE < N
                     THEN syncStep("sync_delay", syncFrame, i, retries, reps,
                                   Append(log, Ev("wait", batchNum, DELAY_MS)),
                                   None)
                     ELSE syncStep("sync_settled", syncFrame, i, retries, reps,
                                   log, Some(Returned(N, Len(rawDocs))))
           \/ /\ failuresLeft > 0
              /\ failuresLeft' = failuresLeft - 1
              /\ UNCHANGED remoteVars
              /\ LET r == retries + 1
                     failed == Append(syncLog, Ev("upload_failed", batchNum, r))
                     backoff == DELAY_MS * pow2(r - 1)
                     info == Report(batchNum, totalBatches, i, N,
                                    percentOf(i, N), <<"Retry", r, batchNum>>)
                     reps == onProgress(reports, info)
                 IN  IF exhausted(r)
                     THEN syncStep("sync_settled", syncFrame, i, r, reports,
                                   failed, Some(Thrown("addDocuments")))
                     ELSE syncStep("sync_backoff", syncFrame, i, r, reps,
                                   failed \o <<Ev("report", batchNum, Len(reps)),
                                               Ev("wait", batchNum, backoff)>>,
                                   None)
    /\ syncFrameVars

\* syncKnowledgeBase: the backoff wait ends, the same batch is tried again
SyncBackoffDone ==
    /\ pc[SyncTask] = "sync_backoff"
    /\ syncStep("sync_upload", syncFrame, batchStart, retries, reports,
                syncLog, None)
    /\ UNCHANGED <<failuresLeft, remoteVars>>
    /\ syncFrameVars

nextBatchStartOverlap(i) == i + BATCH_SIZE - 1

\* for (let i = 0; i < validDocs.length; i += BATCH_SIZE)
nextBatchStart(i) == i + BATCH_SIZE

\* syncKnowledgeBase: the wait between batches ends, the next batch begins
SyncDelayDone ==
    /\ pc[SyncTask] = "sync_delay"
    /\ syncStep("sync_upload", syncFrame, nextBatchStart(batchStart), 0,
                reports, syncLog, None)
    /\ UNCHANGED <<failuresLeft, remoteVars>>
    /\ syncFrameVars

\* a route that sends done whatever syncKnowledgeBase did
SyncRouteDoneAlwaysDone ==
    /\ pc[SyncTask] = "sync_settled"
    /\ pc' = [pc EXCEPT ![SyncTask] = "closed"]
    /\ stream' = Append(stream,
            [type |-> "done",
             body |-> syncOutcome[1]])
    /\ runLog' = Append(runLog,
            [file |-> specificFile, before |-> uploadBase[1],
             after |-> IndexSnapshot, outcome |-> syncOutcome[1],
             retried |-> Cardinality({j \in 1..Len(syncLog) :
                                        syncLog[j].ev = "upload_failed"})])
    /\ UNCHANGED <<specificFile, rawDocs, validDocs, batchStart, retries,
                   reports, syncOutcome, syncLog, uploadBase, runsLeft,
                   failuresLeft, remoteVars>>
    /\ syncFrameVars

\* the route after `await syncKnowledgeBase(...)`: send done or error, close
SyncRouteDone ==
    /\ pc[SyncTask] = "sync_settled"
    /\ pc' = [pc EXCEPT ![SyncTask] = "closed"]
    /\ stream' = Append(stream,
            [type |-> IF syncOutcome[1].kind = "returned" THEN "done" ELSE "error",
             body |-> syncOutcome[1]])
    /\ runLog' = Append(runLog,
            [file |-> specificFile, before |-> uploadBase[1],
             after |-> IndexSnapshot, outcome |-> syncOutcome[1],
             retried |-> Cardinality({j \in 1..Len(syncLog) :
                                        syncLog[j].ev = "upload_failed"})])
    /\ UNCHANGED <<specificFile, rawDocs, validDocs, batchStart, retries,
                   reports, syncOutcome, syncLog, uploadBase, runsLeft,
                   failuresLeft, remoteVars>>
    /\ syncFrameVars

\* ---------------------------------------------------- upload request steps
syncRunVars == <<specificFile, rawDocs, validDocs, batchStart, retries,
                 reports, stream, syncOutcome, syncLog, uploadBase, runLog,
                 runsLeft>>

uploadFrameVars ==
    UNCHANGED <<envVars, clockVars, memoVars, searchVars, syncRunVars, httpVars>>

\* POST /api/admin/upload with this x-admin-password and body: 401, or the
\* body is awaited (request.json() or request.formData())
UploadRequest(header, body) ==
    /\ adminIdle
    /\ uploadsLeft > 0
    /\ IF unauthorized(header)
       THEN refuse(Request("upload", header), 401, "Unauthorized")
       ELSE /\ request' = Request("upload", header)
            /\ response' = None
            /\ uploadsLeft' = uploadsLeft - 1
            /\ upInput' = body
            /\ upDocs' = <<>>
            /\ upStart' = 0
            /\ upRetries' = 0
            /\ upStream' = <<>>
            /\ upBase' = Some(IndexSnapshot)
            /\ pc' = [pc EXCEPT ![UploadTask] = "up_parse"]
            /\ UNCHANGED <<envVars, clockVars, remoteVars, memoVars,
                           searchVars, syncVars, deletesLeft>>

\* the upload route: the body is there; checks, processRawText or
\* processFileBuffer, then the stream starts and runs to its first await
\* inside getPineconeStore()
UploadParseDone ==
    /\ pc[UploadTask] = "up_parse"
    /\ LET body == upInput
           parsed == IF body.json
                     THEN processRawText(body.file.split, body.label)
                     ELSE processFileBuffer(body.file, body.label)
           reject(status, error) ==
                /\ response' = Some(Response(status, error, <<>>))
                /\ pc' = [pc EXCEPT ![UploadTask] = "closed"]
                /\ UNCHANGED <<memoVars, uploadVars, syncVars, call,
                               queryCache, lastCall>>
       IN  IF body.json /\ (~body.given \/ body.label = "")
           THEN reject(400, "Text and Source Label are required")
           ELSE IF ~body.json /\ ~body.given
           THEN reject(400, "No file provided")
           ELSE IF ~body.json /\ body.big
           THEN reject(400, "File size exceeds 4MB limit")
           ELSE IF parsed.threw
           THEN reject(500, "Failed to process file")
           ELSE IF Len(parsed.docs) = 0
           THEN reject(400, "Unsupported content or empty submission")
           ELSE /\ response' = Some(Response(200, "", "stream"))
                /\ enterPineconeStore(UploadTask,
                        [docs |-> parsed.docs, input |-> body])
    /\ UNCHANGED <<envVars, clockVars, remoteVars, vectorStore, callsLeft,
                   request, deletesLeft>>

\* the upload stream: vectorStore.addDocuments(batch) settles
UploadBatchDone ==
    /\ pc[UploadTask] = "up_upload"
    /\ LET N == Len(upDocs)
           i == upStart
           batch == SubSeq(upDocs, i + 1,
                           IF i + UPLOAD_BATCH_SIZE < N
                           THEN i + UPLOAD_BATCH_SIZE ELSE N)
           batchNum == i \div UPLOAD_BATCH_SIZE + 1
           totalBatches == ceilDiv(N, UPLOAD_BATCH_SIZE)
       IN  \/ /\ remoteUp /\ indexExists /\ indexDim = GEMINI_DIMENSION
              /\ indexRecords' = indexRecords (+) BagOfSeq(batch)
              /\ UNCHANGED <<indexExists, indexDim, failuresLeft>>
              /\ LET chunksIndexed == i + Len(batch)
                     progress == UpEv("progress", batchNum, chunksIndexed,
                                      percentOf(chunksIndexed, N), "")
                 IN  IF i + UPLOAD_BATCH_SIZE < N
                     THEN uploadStep("up_delay", upFrame, i, upRetries,
                                     Append(upStream, progress))
                     ELSE uploadStep("closed", upFrame, i, upRetries,
                                     upStream \o <<progress,
                                                   UpEv("done", 0, N, 0, "")>>)
           \/ /\ failuresLeft > 0
              /\ failuresLeft' = failuresLeft - 1
              /\ UNCHANGED remoteVars
              /\ LET r == upRetries + 1
                     backoff == UPLOAD_DELAY_MS * pow2(r - 1)
                 IN  IF r > UPLOAD_MAX_RETRIES
                     THEN uploadStep("closed", upFrame, i, r,
                            Append(upStream,
                                   UpEv("error", batchNum, UPLOAD_MAX_RETRIES, 0,
                                        "Batch failed after retries")))
                     ELSE uploadStep("up_backoff", upFrame, i, r,
                            Append(upStream,
                                   UpEv("retry", batchNum, r, backoff, "")))
    /\ uploadFrameVars

\* the upload stream: the backoff wait ends, the same batch is tried again
UploadBackoffDone ==
    /\ pc[UploadTask] = "up_backoff"
    /\ uploadStep("up_upload", upFrame, upStart, upRetries, upStream)
    /\ UNCHANGED <<failuresLeft, remoteVars>>
    /\ uploadFrameVars

\* the upload stream: the wait between batches ends, the next batch begins
UploadDelayDone ==
    /\ pc[UploadTask] = "up_delay"
    /\ uploadStep("up_upload", upFrame, upStart + UPLOAD_BATCH_SIZE, 0, upStream)
    /\ UNCHANGED <<failuresLeft, remoteVars>>
    /\ uploadFrameVars

\* ------------------------------------------------ files and stats requests
\* GET /api/admin/files: 401, or the names in the directory
FilesList(header) ==
    /\ adminIdle
    /\ IF unauthorized(header)
       THEN refuse(Request("files", header), 401, "Unauthorized")
       ELSE /\ request' = Request("files", header)
            /\ response' = Some(Response(200, "", readdirSync(files)))
            /\ UNCHANGED effectVars

FileDeleteAndPurge(header, name) ==
    /\ adminIdle
    /\ deletesLeft > 0
    /\ LET req == Request("delete", header)
       IN  IF unauthorized(header)
           THEN refuse(req, 401, "Unauthorized")
           ELSE IF name = None
           THEN refuse(req, 400, "File name is required")
           ELSE IF name[1] \notin DOMAIN files
           THEN refuse(req, 404, "File not found")
           ELSE /\ request' = req
                /\ response' = Some(Response(200, "", "Deleted"))
                /\ files' = [f \in DOMAIN files \ {name[1]} |-> files[f]]
                /\ deletesLeft' = deletesLeft - 1
                /\ queryCache' = [k \in Keys |-> None]
                /\ UNCHANGED <<apiKey, adminPassword, fnVars, clockVars, remoteVars,
                               memoVars, vectorStore, call, callsLeft, lastCall,
                               syncVars, uploadVars, pc>>

\* DELETE /api/admin/files?name=...: 401, 400 without a name, 404 for a
\* file that is not there, or the file is unlinked
FileDelete(header, name) ==
    /\ adminIdle
    /\ deletesLeft > 0
    /\ LET req == Request("delete", header)
       IN  IF unauthorized(header)
           THEN refuse(req, 401, "Unauthorized")
           ELSE IF name = None
           THEN refuse(req, 400, "File name is required")
           ELSE IF name[1] \notin DOMAIN files
           THEN refuse(req, 404, "File not found")
           ELSE /\ request' = req
                /\ response' = Some(Response(200, "", "Deleted"))
                /\ files' = [f \in DOMAIN files \ {name[1]} |-> files[f]]
                /\ deletesLeft' = deletesLeft - 1
                /\ UNCHANGED <<apiKey, adminPassword, fnVars, clockVars, remoteVars,
                               memoVars, searchVars, syncVars, uploadVars, pc>>

\* GET /api/admin/stats: 401, or index.describeIndexStats() is read; a
\* failure of the client or of the call is answered 500
StatsRequest(header) ==
    /\ adminIdle
    /\ LET req == Request("stats", header)
       IN  IF unauthorizedStats(header)
           THEN refuse(req, 401, "Unauthorized")
           ELSE \/ /\ remoteUp /\ indexExists
                   /\ request' = req
                   /\ response' = Some(Response(200, "",
                                        BagCardinality(indexRecords)))
                   /\ UNCHANGED effectVars
                \/ refuse(req, 500, "Failed to fetch stats")

\* ------------------------------------------------------------ behaviours
\* what earlier syncs left in the durable index
PriorRecords == BagOfSeq(<<Doc("a.md", T_egfr), Doc("b.json", T_salt)>>)
RerankRecords == BagOfSeq(DocsOf(RerankCorpus, "a.md"))

InitProgram(corpus, prior, calls, runs, failures, uploads, deletes, passwords) ==
    /\ apiKey \in {"unset", "placeholder", "valid"}
    /\ adminPassword \in passwords
    /\ request = Request("none", None)
    /\ response = None
    /\ upInput = NoBody
    /\ upDocs = <<>>
    /\ upStart = 0
    /\ upRetries = 0
    /\ upStream = <<>>
    /\ upBase = None
    /\ uploadsLeft = uploads
    /\ deletesLeft = deletes
    /\ files = corpus
    /\ now = 0
    /\ ticks = 0
    /\ \/ /\ indexExists = TRUE
          /\ indexDim = GEMINI_DIMENSION
          /\ indexRecords = prior
       \/ /\ apiKey = "valid"
          /\ indexExists = TRUE
          /\ indexDim = OPENAI_DIMENSION
          /\ indexRecords = prior
       \/ /\ apiKey = "valid"
          /\ indexExists = FALSE
          /\ indexDim = GEMINI_DIMENSION
          /\ indexRecords = EmptyBag
    /\ isIndexReady = FALSE
    /\ isInitialized = FALSE
    /\ cachedStore = 0
    /\ initRuns = 0
    /\ initOks = 0
    /\ storeBuilds = 0
    /\ storeOks = 0
    /\ handle = [t \in Tasks |-> 0]
    /\ vectorStore = None
    /\ queryCache = [k \in Keys |-> None]
    /\ pc = [t \in Tasks |-> "idle"]
    /\ call = [t \in Searchers |-> IdleCall]
    /\ callsLeft = calls
    /\ lastCall = [k \in Keys |-> None]
    /\ specificFile = None
    /\ rawDocs = <<>>
    /\ validDocs = <<>>
    /\ batchStart = 0
    /\ retries = 0
    /\ reports = <<>>
    /\ stream = <<>>
    /\ syncOutcome = None
    /\ syncLog = <<>>
    /\ uploadBase = None
    /\ runLog = <<>>
    /\ runsLeft = runs
    /\ failuresLeft = failures

\* no helper function is under study
InitState(corpus, prior, calls, runs, failures, uploads, deletes, passwords) ==
    /\ InitProgram(corpus, prior, calls, runs, failures, uploads, deletes,
                   passwords)
    /\ fnArg = <<>>
    /\ fnResult = <<>>

\* the administrator's password is set, no upload and no deletion is made
InitWith(corpus, prior, calls, runs, failures) ==
    InitState(corpus, prior, calls, runs, failures, 0, 0, {Some("secret")})

Init == InitWith(SmallCorpus, PriorRecords, MaxCalls, 0, 0)

searchStep(t) ==
    \/ SearchStart(t)
    \/ InitDescribeDone(t)
    \/ InitDeleteDone(t)
    \/ InitWaitDone(t)
    \/ InitCreateDone(t)
    \/ InitCreateCatchDone(t)
    \/ StoreConstructed(t)
    \/ DurableSearchDone(t)
    \/ VsLoadDone(t)
    \/ VsBuildDone(t)
    \/ EphSearchDone(t)
    \/ SearchReturn(t)

\* one caller at a time
Next == searchStep("s1") \/ Tick

Spec == Init /\ [][Next]_vars

\* one caller over the four-chunk corpus
InitRerank == InitWith(RerankCorpus, RerankRecords, MaxRerankCalls, 0, 0)

SpecRerank == InitRerank /\ [][Next]_vars

\* one search over the corpus with a short chunk
InitShort == InitWith(ShortCorpus, PriorRecords, MaxShortCalls, 0, 0)

SpecShort == InitShort /\ [][Next]_vars

\* flattenJsonToText applied to each document of JsonInputs
InitFlatten ==
    /\ InitProgram(SmallCorpus, PriorRecords, 0, 0, 0, 0, 0, {Some("secret")})
    /\ apiKey = "unset"
    /\ fnArg \in JsonInputs
    /\ fnResult = None

\* const text = flattenJsonToText(jsonData)
FlattenCall ==
    /\ fnResult = None
    /\ fnResult' = Some(flattenJsonToText(fnArg, <<>>))
    /\ UNCHANGED <<apiKey, files, adminPassword, fnArg, clockVars, remoteVars,
                   memoVars, searchVars, syncVars, httpVars, uploadVars, pc>>

NextFlatten == FlattenCall

SpecFlatten == InitFlatten /\ [][NextFlatten]_vars

\* formatContext applied to each list of ContextInputs
InitFormat ==
    /\ InitProgram(SmallCorpus, PriorRecords, 0, 0, 0, 0, 0, {Some("secret")})
    /\ apiKey = "unset"
    /\ fnArg \in ContextInputs
    /\ fnResult = None

\* const context = formatContext(docs)
FormatCall ==
    /\ fnResult = None
    /\ fnResult' = Some(formatContext(fnArg))
    /\ UNCHANGED <<apiKey, files, adminPassword, fnArg, clockVars, remoteVars,
                   memoVars, searchVars, syncVars, httpVars, uploadVars, pc>>

NextFormat == FormatCall

SpecFormat == InitFormat /\ [][NextFormat]_vars

\* one caller who spells one query in two ways
InitAlias == InitWith(SmallCorpus, PriorRecords, MaxAliasCalls, 0, 0)

NextAlias ==
    \/ AliasStart("s1")
    \/ InitDescribeDone("s1")
    \/ InitDeleteDone("s1")
    \/ InitWaitDone("s1")
    \/ InitCreateDone("s1")
    \/ InitCreateCatchDone("s1")
    \/ StoreConstructed("s1")
    \/ DurableSearchDone("s1")
    \/ VsLoadDone("s1")
    \/ VsBuildDone("s1")
    \/ EphSearchDone("s1")
    \/ SearchReturn("s1")
    \/ Tick

SpecAlias == InitAlias /\ [][NextAlias]_vars

\* concurrent callers
InitConc == InitWith(SmallCorpus, PriorRecords, MaxConcCalls, 0, 0)

NextConc == \E t \in Searchers : searchStep(t)

SpecConc == InitConc /\ [][NextConc]_vars

\* sync requests, one after another
InitSync ==
    \E corpus \in {BigCorpus, NoCorpus} :
        InitWith(corpus, PriorRecords, 0, MaxRuns, MaxFailures)

NextSync ==
    \/ SyncStart
    \/ SyncLoadDone
    \/ SyncSplitDone
    \/ InitDescribeDone(SyncTask)
    \/ InitDeleteDone(SyncTask)
    \/ InitWaitDone(SyncTask)
    \/ InitCreateDone(SyncTask)
    \/ InitCreateCatchDone(SyncTask)
    \/ StoreConstructed(SyncTask)
    \/ SyncUploadDone
    \/ SyncBackoffDone
    \/ SyncDelayDone
    \/ SyncRouteDone

SpecSync == InitSync /\ [][NextSync]_vars

\* the same, where every upload call settles and every timer fires: the
\* awaits of the batch loop (addDocuments, the backoff, the delay between
\* batches) do not stay pending for ever
SyncLoopFairness ==
    /\ WF_vars(SyncUploadDone)
    /\ WF_vars(SyncBackoffDone)
    /\ WF_vars(SyncDelayDone)
SpecSyncLive == SpecSync /\ SyncLoopFairness

\* the administrator's endpoints, each called with and without the
\* password, one request at a time; the corpus is a single sync batch, so
\* the wait between two sync batches never begins
InitAdmin ==
    InitState(AdminCorpus, PriorRecords, 0, MaxAdminRuns, MaxAdminFailures,
              MaxUploads, MaxDeletes, {None, Some("secret")})

storeStep(t) ==
    \/ InitDescribeDone(t)
    \/ InitDeleteDone(t)
    \/ InitWaitDone(t)
    \/ InitCreateDone(t)
    \/ InitCreateCatchDone(t)
    \/ StoreConstructed(t)

NextAdmin ==
    \/ \E h \in Headers, arg \in AdminSyncArgs : SyncRequest(h, arg)
    \/ SyncLoadDone
    \/ SyncSplitDone
    \/ SyncUploadDone
    \/ SyncBackoffDone
    \/ SyncRouteDone
    \/ \E h \in Headers, body \in UploadBodies : UploadRequest(h, body)
    \/ UploadParseDone
    \/ UploadBatchDone
    \/ UploadBackoffDone
    \/ UploadDelayDone
    \/ \E t \in {SyncTask, UploadTask} : storeStep(t)
    \/ \E h \in Headers : FilesList(h)
    \/ \E h \in Headers, name \in AdminDeleteArgs : FileDelete(h, name)
    \/ \E h \in Headers : StatsRequest(h)

SpecAdmin == InitAdmin /\ [][NextAdmin]_vars

\* searches by one caller while the administrator syncs the corpus, pastes
\* a text and deletes a file; the index exists with the right dimension,
\* no remote call of the write paths fails, so no backoff wait begins, and
\* each write is a single batch
MixedCorpus == [f \in {"a.md"} |-> File(E_md, TRUE, <<T_dial>>)]

MixedRecords == BagOfSeq(<<Doc("a.md", T_water)>>)

MixedBody == UploadBody(TRUE, TRUE, "memo", FALSE, File(E_none, TRUE, <<T_salt>>))

InitMixed ==
    /\ InitState(MixedCorpus, MixedRecords, MaxMixedCalls, MaxAdminRuns, 0,
                 MaxUploads, MaxDeletes, {Some("secret")})
    /\ apiKey \in {"unset", "valid"}
    /\ indexExists /\ indexDim = GEMINI_DIMENSION

\* getPineconeStore over an index of the right dimension: deleteIndex and
\* the createIndex of the try block are never awaited
readyStoreStep(t) ==
    \/ InitDescribeDone(t)
    \/ InitCreateCatchDone(t)
    \/ StoreConstructed(t)

NextMixed ==
    \/ SearchStart("s1")
    \/ DurableSearchDone("s1")
    \/ VsLoadDone("s1")
    \/ VsBuildDone("s1")
    \/ EphSearchDone("s1")
    \/ SearchReturn("s1")
    \/ \E t \in {"s1", SyncTask, UploadTask} : readyStoreStep(t)
    \/ SyncRequest(adminPassword, None)
    \/ SyncLoadDone
    \/ SyncSplitDone
    \/ SyncUploadDone
    \/ SyncRouteDone
    \/ UploadRequest(adminPassword, MixedBody)
    \/ UploadParseDone
    \/ UploadBatchDone
    \/ FileDelete(adminPassword, Some("a.md"))

SpecMixed == InitMixed /\ [][NextMixed]_vars

\* getPineconeStore called by one searcher, twice, and by one sync run over
\* a corpus of one chunk, with a real key and no upload call failing
InitMemo ==
    /\ InitWith(MixedCorpus, MixedRecords, MaxMemoCalls, MaxAdminRuns, 0)
    /\ apiKey = "valid"

MemoStart(t) == \E query \in Queries : searchDocuments(t, query, 1)

NextMemo ==
    \/ MemoStart("s1")
    \/ DurableSearchDone("s1")
    \/ VsLoadDone("s1")
    \/ VsBuildDone("s1")
    \/ EphSearchDone("s1")
    \/ SearchReturn("s1")
    \/ \E t \in {"s1", SyncTask} : storeStep(t)
    \/ SyncRequest(adminPassword, None)
    \/ SyncLoadDone
    \/ SyncSplitDone
    \/ SyncUploadDone
    \/ SyncRouteDone

SpecMemo == InitMemo /\ [][NextMemo]_vars

\* ------------------------------------------------------------ properties
\* a searchDocuments call that has ended and not yet been taken by its caller
Ended(t) == pc[t] = "done"

\* the call went past the cache to the backends
Missed(t) == Ended(t) /\ ~call[t].hit

\* C1: searchDocuments never raises to its caller: whatever fails in the
\* durable backend (handle initialisation, similaritySearch) and in the
\* ephemeral one, the call ends by returning a list, and when the last
\* backend it tried failed too, the list is empty.
C1_NeverRaises ==
    \A t \in Searchers :
        Ended(t) =>
            /\ call[t].outcome = "returned"
            /\ (call[t].durable # "ok" /\ call[t].ephemeral = "failed")
                    => call[t].ret = <<>>

\* a call in which the durable backend and then the ephemeral one failed
C1_BothFailed ==
    \E t \in Searchers :
        /\ Ended(t)
        /\ call[t].durable = "failed"
        /\ call[t].ephemeral = "failed"
        /\ call[t].outcome = "returned"

\* C2 as stated: when the durable backend is configured and fails, the call
\* invokes the ephemeral similaritySearch with the same query and topK and
\* returns its reranked result; when the durable search returns, the
\* ephemeral backend is not consulted.
C2_AlwaysSearchesEphemeral ==
    \A t \in Searchers :
        Ended(t) =>
            /\ call[t].durable = "failed" =>
                    /\ call[t].ephArgs =
                            Some([query |-> call[t].query, topK |-> call[t].topK])
                    /\ call[t].ret = rerank(call[t].raw, call[t].key)
            /\ call[t].durable = "ok" =>
                    call[t].ephemeral = "none" /\ call[t].ephArgs = None

\* C2: when the durable backend is configured and fails, the call turns to
\* the ephemeral backend: it gets the local store and, unless building the
\* store throws, invokes its similaritySearch with the same query and topK;
\* it returns the reranked ephemeral result, or the empty list when the
\* ephemeral backend throws.  When the durable search returns, the ephemeral
\* backend is not consulted.
C2_FallsBackToEphemeral ==
    \A t \in Searchers :
        Ended(t) =>
            /\ call[t].durable = "failed" =>
                    /\ call[t].ephemeral \in {"ok", "failed"}
                    /\ call[t].ephArgs # None =>
                            call[t].ephArgs =
                                Some([query |-> call[t].query, topK |-> call[t].topK])
                    /\ call[t].ephArgs = None =>
                            call[t].ephemeral = "failed" /\ call[t].store = None
                    /\ call[t].ephemeral = "ok" =>
                            /\ call[t].ephArgs # None
                            /\ call[t].raw \in
                                 Answers(BagOfSeq(call[t].store[1]), call[t].topK)
                            /\ call[t].ret = rerank(call[t].raw, call[t].key)
                    /\ call[t].ephemeral = "failed" => call[t].ret = <<>>
            /\ call[t].durable = "ok" =>
                    call[t].ephemeral = "none" /\ call[t].ephArgs = None

\* a call whose durable backend failed and whose ephemeral search answered
\* with documents
C2_FellBack ==
    \E t \in Searchers :
        /\ Ended(t)
        /\ call[t].durable = "failed"
        /\ call[t].ephemeral = "ok"
        /\ call[t].ret # <<>>

\* C3 as stated: a call that starts after an earlier call with the same
\* query has returned, less than the TTL after that return, returns what the
\* earlier call returned and invokes no backend.
C3_WithinTTLOfLastReturn ==
    \A t \in Searchers :
        (/\ Ended(t)
         /\ call[t].prev # None
         /\ call[t].startNow - call[t].prev[1].at < CACHE_TTL)
            => /\ call[t].hit
               /\ call[t].ret = call[t].prev[1].docs

\* C3: a call that starts after an earlier call with the same normalized
\* query has returned, no other call for that query ending in between, and
\* less than the TTL after the timestamp of the cache entry which the
\* earlier call stored or was served from, returns what the earlier call
\* returned, in the same order, and invokes neither backend.
C3_WithinTTLOfEntry ==
    \A t \in Searchers :
        (/\ Ended(t)
         /\ call[t].prev # None
         /\ call[t].startNow - call[t].prev[1].stamp < CACHE_TTL)
            => /\ call[t].hit
               /\ call[t].ret = call[t].prev[1].docs
               /\ call[t].durable = "none"
               /\ call[t].ephemeral = "none"
               /\ call[t].ephArgs = None

\* a second call served from the cache some time after the first returned
C3_ServedFromCache ==
    \E t \in Searchers :
        /\ Ended(t)
        /\ call[t].prev # None
        /\ call[t].startNow > call[t].prev[1].stamp
        /\ call[t].startNow - call[t].prev[1].stamp < CACHE_TTL
        /\ call[t].hit
        /\ call[t].ret # <<>>

\* C4: a cache entry older than the TTL is never returned: the call goes to
\* a backend again and replaces the entry with its result and a timestamp
\* taken when it returns.
C4_ExpiredEntryReplaced ==
    \A t \in Searchers :
        (/\ Ended(t)
         /\ call[t].startEntry # None
         /\ call[t].startNow - call[t].startEntry[1].timestamp > CACHE_TTL)
            => /\ ~call[t].hit
               /\ call[t].durable # "none" \/ call[t].ephemeral # "none"
               /\ queryCache[call[t].key] # None
               /\ queryCache[call[t].key][1].docs = call[t].ret
               /\ queryCache[call[t].key][1].timestamp >= call[t].startNow
               /\ lastCall[call[t].key][1].stamp =
                      queryCache[call[t].key][1].timestamp

\* a call that found an entry older than the TTL and returned other
\* documents than the entry held
C4_ExpiredSeen ==
    \E t \in Searchers :
        /\ Ended(t)
        /\ call[t].startEntry # None
        /\ call[t].startNow - call[t].startEntry[1].timestamp > CACHE_TTL
        /\ call[t].ret # call[t].startEntry[1].docs

\* chunks with a vocabulary term first, then the others, each group in the
\* order of the list it is taken from
hasTerm(d) == someKeyword(toLowerCase(d.pageContent))
StablePartition(list) ==
    SelectSeq(list, hasTerm) \o SelectSeq(list, LAMBDA d : ~hasTerm(d))

\* C5: on a cache miss, when the normalized query contains a vocabulary
\* term the list returned is the stable partition of the backend's list
\* (chunks containing a term first, both groups in the backend's order,
\* nothing added, dropped or duplicated); otherwise it is the backend's list
\* unchanged.
C5_StablePartition ==
    \A t \in Searchers :
        Missed(t) =>
            call[t].ret = IF someKeyword(call[t].key)
                          THEN StablePartition(call[t].raw)
                          ELSE call[t].raw

\* a vocabulary query whose backend list of four alternates chunks without
\* and with a term, so that both groups hold two chunks that move
C5_Reordered ==
    \E t \in Searchers :
        /\ Missed(t)
        /\ someKeyword(call[t].key)
        /\ Len(call[t].raw) = 4
        /\ ~hasTerm(call[t].raw[1]) /\ hasTerm(call[t].raw[2])
        /\ ~hasTerm(call[t].raw[3]) /\ hasTerm(call[t].raw[4])
        /\ call[t].ret # call[t].raw

\* C9 as stated, for the runs that succeed: across any interleaving of
\* getPineconeStore calls, initializePinecone completes at most once and the
\* store handle is constructed at most once.
C9_InitializedOnce == initOks <= 1 /\ storeOks <= 1

\* C10 as stated: a searchDocuments call leaves an existing durable index as
\* it found it: it exists, with the same dimension and the same records.
C10_SearchKeepsIndex ==
    \A t \in Searchers :
        (Ended(t) /\ call[t].startIndex[1].exists)
            => call[t].startIndex[1] = IndexSnapshot

\* ------------------------------------------------------- sync properties
\* the log entries of one batch of the run, and its upload attempts
batchLog(b) == SelectSeq(syncLog, LAMBDA e : e.batch = b)
uploadsOf(b) ==
    SelectSeq(syncLog, LAMBDA e : e.batch = b /\ e.ev \in {"upload_failed", "upload_ok"})

\* batch b failed twice and then got through
FailedTwiceThenOk(b) ==
    /\ Len(uploadsOf(b)) = 3
    /\ uploadsOf(b)[1].ev = "upload_failed"
    /\ uploadsOf(b)[2].ev = "upload_failed"
    /\ uploadsOf(b)[3].ev = "upload_ok"

\* C6: when a batch's upload fails twice and then succeeds, the batch is
\* retried exactly twice, after waits of 2000 ms and then 4000 ms; the two
\* reports at the retries carry the chunksIndexed reached before the batch,
\* and only the report after the successful upload adds the batch's size.
C6_TwoRetriesThenSuccess ==
    \A b \in 1..ceilDiv(Len(validDocs), BATCH_SIZE) :
        FailedTwiceThenOk(b) =>
            LET log == batchLog(b)
                before == (b - 1) * BATCH_SIZE
                size == uploadsOf(b)[3].n
                first == log[2].n
            IN  /\ Len(log) >= 8
                /\ log[1] = Ev("upload_failed", b, 1)
                /\ log[2].ev = "report"
                /\ log[3] = Ev("wait", b, 2000)
                /\ log[4] = Ev("upload_failed", b, 2)
                /\ log[5] = Ev("report", b, first + 1)
                /\ log[6] = Ev("wait", b, 4000)
                /\ log[7] = Ev("upload_ok", b, size)
                /\ log[8] = Ev("report", b, first + 2)
                /\ \A j \in 9..Len(log) : log[j] = Ev("wait", b, DELAY_MS)
                /\ first > 1
                /\ reports[first - 1].chunksIndexed = before
                /\ reports[first].chunksIndexed = before
                /\ reports[first].status = <<"Retry", 1, b>>
                /\ reports[first + 1].chunksIndexed = before
                /\ reports[first + 1].status = <<"Retry", 2, b>>
                /\ reports[first + 2].chunksIndexed = before + size
                /\ reports[first + 2].status = <<>>
                /\ size > 0

\* the second batch of a run failed twice and then got through
C6_SecondBatchRetried == FailedTwiceThenOk(2)

\* C7: when a batch's upload fails at its first attempt and at all three
\* retries, the run ends there by raising: no upload, report or wait follows
\* the fourth failure, the run produces no result, the stream carries no
\* done event, and the chunks of the batches uploaded before are still in
\* the durable index.
C7_ExhaustedAborts ==
    \A j \in 1..Len(syncLog) :
        (syncLog[j].ev = "upload_failed" /\ syncLog[j].n >= MAX_RETRIES + 1) =>
            /\ j = Len(syncLog)
            /\ Len(uploadsOf(syncLog[j].batch)) = MAX_RETRIES + 1
            /\ pc[SyncTask] \in {"sync_settled", "closed"}
            /\ syncOutcome # None
            /\ syncOutcome[1].kind = "raised"
            /\ batchStart = (syncLog[j].batch - 1) * BATCH_SIZE
            /\ Len(reports) =
                 Cardinality({k \in 1..Len(syncLog) : syncLog[k].ev = "report"})
            /\ \A k \in 1..Len(stream) : stream[k].type # "done"
            /\ \A k \in 1..Len(stream) :
                    stream[k].type = "error" => k = Len(stream) /\ k = Len(reports) + 1
            /\ BagOfSeq(SubSeq(validDocs, 1, batchStart)) \sqsubseteq indexRecords

\* a run that uploaded its first batch, gave up on a later one and closed
C7_GaveUpAfterFirstBatch ==
    /\ pc[SyncTask] = "closed"
    /\ syncOutcome # None
    /\ syncOutcome[1] = Thrown("addDocuments")
    /\ batchStart > 0

\* the chunks a sync of the corpus, or of the file named, uploads
chunksOf(arg) ==
    filterValid(splitDocuments(files, loadLocalDocuments(files, arg)))

\* C8 as stated: two sync runs over the unchanged corpus, every upload
\* succeeding, each add the same totalChunks records: after the second the
\* durable index holds what it held before the first and twice the chunks,
\* no record of it updated or deleted.
C8_SyncOnlyAppends ==
    (/\ Len(runLog) = 2
     /\ runLog[1].file = None
     /\ runLog[2].file = None
     /\ \A j \in 1..2 : runLog[j].outcome.kind = "returned" /\ runLog[j].retried = 0)
        => LET added == BagOfSeq(chunksOf(runLog[1].file))
           IN  /\ runLog[1].outcome.totalChunks = BagCardinality(added)
               /\ runLog[2].outcome.totalChunks = BagCardinality(added)
               /\ runLog[1].after.records = runLog[1].before.records (+) added
               /\ runLog[2].after.records =
                      (runLog[1].before.records (+) added) (+) added


\* the durable backend cannot take a write: the key is unset or not a real
\* one, or the index was not made ready
durableDown == apiKey # "valid" \/ ~isIndexReady

\* the types of the events a stream has carried
eventTypes(evs) == {evs[j].type : j \in 1..Len(evs)}

\* C11: when the durable backend is unconfigured, unreachable or not ready
\* and there is at least one chunk to write, a sync run ends by raising and
\* its stream with an error event, an upload request ends with an error
\* event, neither reports success, and the ephemeral index is not written
C11_DurableDownIsAnError ==
    /\ (pc[SyncTask] \in {"sync_settled", "closed"} /\ Len(validDocs) > 0
            /\ durableDown)
        => /\ syncOutcome[1].kind = "raised"
           /\ pc[SyncTask] = "closed"
                => /\ stream[Len(stream)].type = "error"
                   /\ "done" \notin eventTypes(stream)
    /\ (pc[UploadTask] = "closed" /\ Len(upDocs) > 0 /\ durableDown)
        => /\ upStream[Len(upStream)].type = "error"
           /\ "done" \notin eventTypes(upStream)
    /\ vectorStore = None

\* a sync run and an upload request, each with chunks to write, have both
\* ended while the key was not a real one
C11_BothEndedInError ==
    /\ apiKey # "valid"
    /\ pc[SyncTask] = "closed" /\ Len(validDocs) > 0
    /\ syncOutcome[1].kind = "raised"
    /\ pc[UploadTask] = "closed" /\ Len(upDocs) > 0
    /\ upStream[Len(upStream)].type = "error"

\* the header is absent or is not the value of ADMIN_PASSWORD
absentOrDiffers(header) == header = None \/ header # adminPassword

\* C12: a request to the sync, upload, file list, file delete or index
\* stats endpoint whose x-admin-password is absent or differs from
\* ADMIN_PASSWORD is answered 401 and has no effect: no corpus load or
\* index add begins, no file is deleted, no index figure is read
C12_UnauthorizedIsRefused ==
    [][(request' # request /\ absentOrDiffers(request'.header))
         => /\ response' # None
            /\ response'[1].status = 401
            /\ response'[1].value = <<>>
            /\ UNCHANGED effectVars]_vars

\* a deletion asked for with a wrong password has been answered 401 while
\* the password was set and the file was there
C12_DeleteRefused ==
    /\ adminPassword = Some("secret")
    /\ request = Request("delete", Some("wrong"))
    /\ response = Some(Response(401, "Unauthorized", <<>>))
    /\ "NOTES.TXT" \in DOMAIN files

\* the files of the directory with a supported extension, in any letter
\* case, and those of them whose content can be extracted
eligibleFiles ==
    {f \in DOMAIN files :
        toLowerCase(files[f].ext) \in {E_txt, E_md, E_pdf, E_docx, E_json}}
extractableFiles == {f \in eligibleFiles : files[f].ok}

\* the elements of a list
Range(list) == {list[j] : j \in 1..Len(list)}

\* the sync run is past loadLocalDocuments and its stream is still open:
\* the directory is as the run found it
Loaded == pc[SyncTask] \notin {"idle", "sync_load", "closed"}

\* C13: in a full sync a file whose content cannot be extracted is skipped:
\* every other eligible file is loaded, its chunks of more than 10
\* characters are the ones to upload, and the run raises only when the store
\* cannot be had or an upload failed; with every upload succeeding it
\* returns their counts and the index has gained each of these chunks
C13_BadFileSkipped ==
    (Loaded /\ specificFile = None)
        => /\ Range(rawDocs) = extractableFiles
           /\ Len(rawDocs) = Cardinality(extractableFiles)
           /\ pc[SyncTask] \in {"sync_upload", "sync_backoff", "sync_delay",
                                "sync_settled"}
                => LET have == Range(validDocs)
                   IN  /\ \A f \in extractableFiles :
                            \A j \in 1..Len(files[f].split) :
                                Len(trim(files[f].split[j])) > 10
                                    => Doc(f, files[f].split[j]) \in have
                       /\ \A d \in have : d.source \in extractableFiles
           /\ (syncOutcome # None /\ syncOutcome[1].kind = "raised")
                => \/ syncOutcome[1].error = "getPineconeStore"
                   \/ \E j \in 1..Len(syncLog) : syncLog[j].ev = "upload_failed"
           /\ (syncOutcome # None /\ syncOutcome[1].kind = "returned")
                => /\ syncOutcome[1].fileCount = Cardinality(extractableFiles)
                   /\ syncOutcome[1].totalChunks = Len(validDocs)
                   /\ Range(validDocs) \subseteq DOMAIN indexRecords

\* a full sync over a directory with a JSON, a Word and a PDF file that
\* cannot be extracted has returned after uploading the chunks of the two
\* other files
C13_SyncedAroundBadFile ==
    /\ pc[SyncTask] = "sync_settled" /\ specificFile = None
    /\ {"bad.json", "bad.docx", "bad.pdf"} \subseteq eligibleFiles \ extractableFiles
    /\ syncOutcome[1].kind = "returned"
    /\ syncOutcome[1].fileCount = 2
    /\ syncOutcome[1].totalChunks = 5

\* the extension, compared without regard to letter case, is one of .txt,
\* .md, .json, .pdf, .docx
supportedExt(ext) == toLowerCase(ext) \in {E_txt, E_md, E_json, E_pdf, E_docx}

\* the upload request that was served last carried a file
FileUploadServed ==
    /\ request.endpoint = "upload" /\ pc[UploadTask] = "closed"
    /\ response # None /\ response[1].status # 401
    /\ ~upInput.json /\ upInput.given /\ ~upInput.big

\* C14: processFileBuffer gives the empty list, and throws nothing, for a
\* file name whose extension is not a supported one: the upload of such a
\* file is answered 400 for its empty content, not 500 for an error, and
\* nothing is sent or indexed; a sync loads no such file and its fileCount
\* counts none
C14_UnsupportedGivesNothing ==
    /\ \A body \in UploadBodies :
            ~supportedExt(body.file.ext)
                => processFileBuffer(body.file, body.label) = Parsed(FALSE, <<>>)
    /\ (FileUploadServed /\ ~supportedExt(upInput.file.ext))
            => /\ response = Some(Response(400,
                        "Unsupported content or empty submission", <<>>))
               /\ upDocs = <<>> /\ upStream = <<>>
               /\ indexRecords = upBase[1].records
    /\ Loaded
            => /\ \A f \in Range(rawDocs) : supportedExt(files[f].ext)
               /\ (syncOutcome # None /\ syncOutcome[1].kind = "returned")
                    => syncOutcome[1].fileCount
                            <= Cardinality({f \in DOMAIN files :
                                                supportedExt(files[f].ext)})

\* after a full sync that counted the two files it could load, in a
\* directory that holds logo.png, the upload of pic.PNG has been answered
C14_PictureTurnedAway ==
    /\ FileUploadServed /\ upInput.label = "pic.PNG"
    /\ response # None /\ response[1].status = 400
    /\ "logo.png" \in DOMAIN files
    /\ Len(runLog) = 1 /\ runLog[1].file = None
    /\ runLog[1].outcome.kind = "returned" /\ runLog[1].outcome.fileCount = 2

\* the chunk has more than 10 characters once trimmed
longEnough(d) == Len(trim(d.pageContent)) > 10

\* C15 as stated: every chunk in an index, the durable one that sync and
\* upload write or the ephemeral one that getVectorStore builds, has trimmed
\* content of more than 10 characters
C15_IndexedChunksAreLong ==
    /\ \A d \in DOMAIN indexRecords : longEnough(d)
    /\ vectorStore # None => \A d \in Range(vectorStore[1]) : longEnough(d)

\* the lines of a text: String.prototype.split('\n')
RECURSIVE splitLines(_)
splitLines(text) ==
    LET breaks == {i \in 1..Len(text) : text[i] = "\n"}
    IN  IF breaks = {} THEN <<text>>
        ELSE LET at == CHOOSE i \in breaks : \A j \in breaks : i <= j
             IN  <<SubSeq(text, 1, at - 1)>>
                    \o splitLines(SubSeq(text, at + 1, Len(text)))

\* the line the statement expects for each leaf of a value: the key path
\* joined by ' > ', then ': ' and the leaf; an array element has the path
\* of its array
RECURSIVE leafLines(_, _)
leafLines(data, path) ==
    IF data.t \in {"string", "number", "boolean"}
    THEN <<path \o <<":", " ">> \o data.v>>
    ELSE IF Len(data.items) = 0 THEN <<>>
    ELSE Flatten([i \in 1..Len(data.items) |->
            LET value == data.items[i]
            IN  leafLines(value,
                    IF data.t = "array" THEN path
                    ELSE IF Len(path) > 0
                    THEN path \o <<" ", ">", " ">> \o value.k
                    ELSE value.k)])

\* how often a line occurs in a list of lines
occurrences(line, lines) == Cardinality({j \in 1..Len(lines) : lines[j] = line})

\* C16 as stated: flattenJsonToText renders every string, number and
\* boolean leaf, at any depth and inside arrays, exactly once, on a line
\* labelled with its key path joined by ' > '; {"a": {"b": "x", "c": [1, 2]}}
\* gives the lines 'a > b: x', 'a > c: 1' and 'a > c: 2'
C16_EveryLeafOnALabelledLine ==
    fnResult # None /\ fnArg \in JsonInputs
        => LET out == splitLines(fnResult[1])
               want == leafLines(fnArg, <<>>)
           IN  /\ \A line \in Range(want) :
                    occurrences(line, out) = occurrences(line, want)
               /\ fnArg = JsonExample
                    => {<<"a"," ",">"," ","b",":"," ","x">>,
                        <<"a"," ",">"," ","c",":"," ","1">>,
                        <<"a"," ",">"," ","c",":"," ","2">>} \subseteq Range(out)

\* what the statement expects of one chunk: '[Source: <source>]', with
\* Unknown for a chunk that has no source, then a line break and the content
expectedBlock(doc) ==
    <<"[","S","o","u","r","c","e",":"," ">>
        \o (IF doc.source = <<>> THEN Unknown ELSE doc.source)
        \o <<"]">> \o <<"\n">> \o doc.pageContent

\* where the block of the i-th chunk begins in the text
RECURSIVE blockStart(_, _)
blockStart(documents, i) ==
    IF i = 1 THEN 0
    ELSE blockStart(documents, i - 1) + Len(expectedBlock(documents[i - 1]))
            + Len(ContextDelimiter)

\* C17: formatContext gives the sentinel sentence for the empty list and
\* never the empty string; for a list of chunks it gives their blocks in
\* the order of the list, each '[Source: <source>]' and the content, with
\* the delimiter between two blocks and nothing else; the same list gives
\* the same text
C17_FormatContext ==
    (fnResult # None /\ fnArg \in ContextInputs)
        => LET out == fnResult[1]
               n == Len(fnArg)
           IN  /\ Len(out) > 0
               /\ n = 0 => out = NoRelevant
               /\ n > 0 =>
                    /\ \A i \in 1..n :
                        LET at == blockStart(fnArg, i)
                            block == expectedBlock(fnArg[i])
                        IN  /\ SubSeq(out, at + 1, at + Len(block)) = block
                            /\ i < n =>
                                SubSeq(out, at + Len(block) + 1,
                                       at + Len(block) + Len(ContextDelimiter))
                                    = ContextDelimiter
                    /\ Len(out) = blockStart(fnArg, n)
                                    + Len(expectedBlock(fnArg[n]))
               /\ out = formatContext(fnArg)

\* two chunks of different sources have been formatted
C17_TwoChunksFormatted ==
    /\ fnResult # None /\ fnArg \in ContextInputs
    /\ Len(fnArg) = 2
    /\ fnArg[1].source = <<"m","e","m","o">> /\ fnArg[2].source = <<"a",".","m","d">>
    /\ fnArg[1].pageContent = <<"x">> /\ fnArg[2].pageContent = T_egfr

\* the upload calls of the run that have settled, in order
attempts == SelectSeq(syncLog, LAMBDA e : e.ev \in {"upload_failed", "upload_ok"})

\* the batch whose upload call is in flight, or would be the next
currentBatch == batchStart \div BATCH_SIZE + 1

\* what the index held when the run's first upload began: what it held
\* when the run began, or nothing when the run had to create it
recordsAtFirstUpload ==
    IF uploadBase[1].exists /\ uploadBase[1].dim = GEMINI_DIMENSION
    THEN uploadBase[1].records ELSE EmptyBag

\* C18: the batches of a sync run are uploaded one after another in
\* increasing order: an upload of batch b+1 is attempted only after an
\* upload of batch b succeeded, no batch is uploaded again after it
\* succeeded, the one call in flight is that of the first batch that has not
\* succeeded, every batch has at most 100 chunks, and a run that returns has
\* uploaded the batches 1..ceil(N/100) once each and added each valid chunk
\* to the index exactly once
C18_BatchesInOrder ==
    LET a == attempts
        N == Len(validDocs)
        oks == {j \in 1..Len(a) : a[j].ev = "upload_ok"}
    IN  /\ \A j \in 1..Len(a) :
            /\ a[j].batch = 1 + Cardinality({k \in oks : k < j})
            /\ a[j].ev = "upload_ok"
                => /\ a[j].n >= 1 /\ a[j].n <= BATCH_SIZE
                   /\ a[j].n = IF a[j].batch * BATCH_SIZE <= N THEN BATCH_SIZE
                               ELSE N - (a[j].batch - 1) * BATCH_SIZE
        /\ pc[SyncTask] \in {"sync_upload", "sync_backoff", "sync_delay"}
            => currentBatch = Cardinality(oks) +
                    (IF pc[SyncTask] = "sync_delay" THEN 0 ELSE 1)
        /\ (pc[SyncTask] = "sync_settled" /\ syncOutcome[1].kind = "returned"
                /\ N > 0)
            => /\ Cardinality(oks) = ceilDiv(N, BATCH_SIZE)
               /\ indexRecords = recordsAtFirstUpload (+) BagOfSeq(validDocs)

\* a run of three batches has returned after its second batch was retried
C18_ThreeBatchesUploaded ==
    /\ pc[SyncTask] = "sync_settled" /\ syncOutcome[1].kind = "returned"
    /\ Len(validDocs) = 207
    /\ \E j \in 1..Len(attempts) :
            attempts[j].ev = "upload_failed" /\ attempts[j].batch = 2

\* the places of the syncLog where a report was handed over
reportEntries == {j \in 1..Len(syncLog) : syncLog[j].ev = "report"}

\* the run is past getPineconeStore() and has begun to report
Uploading ==
    \/ pc[SyncTask] \in {"sync_upload", "sync_backoff", "sync_delay"}
    \/ pc[SyncTask] \in {"sync_settled", "closed"} /\ Len(syncLog) > 0

\* C19: a sync run that reaches the upload phase reports first batch 0 with
\* 0 chunks, then once after each successful upload and once at each retry,
\* in the order of these events and at no other time; a run that returns
\* after B batches and R retries has made exactly 1 + B + R reports
C19_ReportsMatchEvents ==
    Uploading =>
        LET N == Len(validDocs)
            B == Cardinality({j \in 1..Len(syncLog) : syncLog[j].ev = "upload_ok"})
            R == Cardinality({j \in 1..Len(syncLog) :
                                /\ syncLog[j].ev = "upload_failed"
                                /\ syncLog[j].n <= MAX_RETRIES})
        IN  /\ syncLog[1] = Ev("report", 0, 1)
            /\ reports[1].batch = 0 /\ reports[1].chunksIndexed = 0
            /\ reports[1].totalChunks = N
            /\ Len(reports) = Cardinality(reportEntries)
            /\ Len(reports) = 1 + B + R
            /\ \A j \in reportEntries :
                    /\ syncLog[j].n = Cardinality({k \in reportEntries : k <= j})
                    /\ reports[syncLog[j].n].batch = syncLog[j].batch
                    /\ j > 1 =>
                        \/ /\ syncLog[j - 1] = Ev("upload_ok", syncLog[j].batch,
                                                   syncLog[j - 1].n)
                           /\ reports[syncLog[j].n].status = <<>>
                        \/ /\ syncLog[j - 1].ev = "upload_failed"
                           /\ reports[syncLog[j].n].status =
                                <<"Retry", syncLog[j - 1].n, syncLog[j].batch>>
            /\ \A j \in 1..Len(syncLog) :
                    (\/ syncLog[j].ev = "upload_ok"
                     \/ syncLog[j].ev = "upload_failed"
                            /\ syncLog[j].n <= MAX_RETRIES)
                        => j < Len(syncLog) /\ syncLog[j + 1].ev = "report"
            /\ (syncOutcome # None /\ syncOutcome[1].kind = "returned")
                    => /\ B = ceilDiv(N, BATCH_SIZE)
                       /\ Len(reports) = 1 + ceilDiv(N, BATCH_SIZE) + R

\* a run of three batches has returned after two retries, with six reports
C19_SixReports ==
    /\ pc[SyncTask] = "sync_settled" /\ syncOutcome[1].kind = "returned"
    /\ ceilDiv(Len(validDocs), BATCH_SIZE) = 3
    /\ Cardinality({j \in 1..Len(syncLog) : syncLog[j].ev = "upload_failed"}) = 2
    /\ Len(reports) = 6

\* the call of t has tried a backend and none it tried gave results
everyBackendFailed(c) ==
    /\ ~c.hit
    /\ c.durable # "ok" /\ c.ephemeral = "failed"

\* C20: searchDocuments stores a cache entry only after a backend search
\* that succeeded: a call whose every attempted backend failed leaves the
\* cache as it found it, so that the next search for the query goes to the
\* backends again.
C20_FailedSearchNotCached ==
    [][\A t \in Searchers :
          (pc[t] # "done" /\ pc'[t] = "done" /\ everyBackendFailed(call'[t]))
              => queryCache' = queryCache]_vars

\* the step belongs to a write path: a sync or upload request advances, a
\* corpus file is deleted, or the durable index changes
indexMutation ==
    \/ pc'[SyncTask] # pc[SyncTask]
    \/ pc'[UploadTask] # pc[UploadTask]
    \/ files' # files
    \/ indexRecords' # indexRecords

\* the entry the call found was younger than the TTL
foundFresh(c) ==
    c.startEntry # None /\ c.startNow - c.startEntry[1].timestamp < CACHE_TTL

\* C21: no index mutation (sync, upload, deletion of a corpus file) removes
\* or changes a query-cache entry, and a search that finds an entry younger
\* than the TTL returns that entry's documents whatever was indexed since
C21_MutationKeepsCache ==
    /\ [][indexMutation => queryCache' = queryCache]_vars
    /\ [](\A t \in Searchers :
            (Ended(t) /\ foundFresh(call[t]))
                => call[t].hit /\ call[t].ret = call[t].startEntry[1].docs)

\* after a sync that returned and added chunks to the index, a search is
\* answered from the cache with the one chunk indexed before the sync,
\* where the index it would have searched holds more and four were asked
C21_StaleAfterSync ==
    /\ Ended("s1") /\ call["s1"].hit
    /\ \E j \in 1..Len(runLog) :
            /\ runLog[j].outcome.kind = "returned"
            /\ runLog[j].before.records = MixedRecords
            /\ BagCardinality(runLog[j].after.records) = 2
    /\ BagCardinality(call["s1"].startIndex[1].records) >= 2
    /\ call["s1"].topK = 4
    /\ Len(call["s1"].ret) = 1

\* run j of the runLog ended because a batch exhausted its retries
exhaustedRun(j) ==
    /\ runLog[j].outcome.kind = "raised"
    /\ runLog[j].retried > MAX_RETRIES
    /\ runLog[j].before.exists /\ runLog[j].before.dim = GEMINI_DIMENSION

\* the batch at which run j stopped: the one after those it had uploaded
failedBatch(j) ==
    (BagCardinality(runLog[j].after.records)
        - BagCardinality(runLog[j].before.records)) \div BATCH_SIZE + 1

\* C22: when a sync batch exhausts its retries, the error thrown to the
\* caller of syncKnowledgeBase, which the endpoint sends as its error event,
\* identifies the batch that failed: runs that stopped at different batches
\* end with different errors
C22_ErrorNamesBatch ==
    \A j, k \in 1..Len(runLog) :
        (/\ exhaustedRun(j) /\ exhaustedRun(k)
         /\ failedBatch(j) # failedBatch(k))
            => runLog[j].outcome.error # runLog[k].outcome.error

\* the step in which the getVectorStore call of t assigns vectorStore: the
\* empty store after loadDocuments, or the store fromDocuments built
assignsVectorStore(t) ==
    pc[t] \in {"vs_load", "vs_build"} /\ pc'[t] = "eph_search"

\* C23: getVectorStore constructs the ephemeral index at most once per
\* process, also when several searches call it before the first build has
\* completed, and an index once built is never replaced or modified
C23_EphemeralBuiltOnce ==
    [][/\ \A t \in Searchers : assignsVectorStore(t) => vectorStore = None
       /\ vectorStore # None => vectorStore' = vectorStore]_vars

\* the other caller
other(t) == CHOOSE u \in Searchers : u # t

\* what the call c can return when it is the only call of the process:
\* the reranked answer of the backend that answered it, or the empty list
\* when no backend did.  The durable index is searched as getPineconeStore
\* leaves it: untouched, or created anew and empty.
aloneResults(c) ==
    LET durable == IF indexRecords = PriorRecords THEN PriorRecords
                   ELSE EmptyBag
        ephemeral == BagOfSeq(splitDocuments(files, loadDocuments(files)))
    IN  IF c.durable = "ok"
        THEN {rerank(r, c.key) : r \in Answers(durable, c.topK)}
        ELSE IF c.ephemeral = "ok"
        THEN {rerank(r, c.key) : r \in Answers(ephemeral, c.topK)}
        ELSE {<<>>}

\* the calls of both callers are under way or ended, for different keys
differentKeys ==
    /\ \A t \in Searchers : pc[t] # "idle"
    /\ call["s1"].key # call["s2"].key

\* the call of t has deleted the index and is about to create it again:
\* alone, it finds the index still absent
recreating(t) == pc[t] = "init_create"

\* C24: searchDocuments calls for different normalized queries do not
\* affect each other: however their awaits interleave, each call meets the
\* backends in the state it would meet alone, returns a result it could
\* return alone, and leaves the cache entry for its own key holding that
\* result
C24_DifferentQueriesIndependent ==
    differentKeys =>
        \A t \in Searchers :
            /\ recreating(t) => ~indexExists
            /\ (Ended(t) /\ ~call[t].hit)
                => /\ call[t].ret \in aloneResults(call[t])
                   /\ queryCache[call[t].key] # None
                   /\ queryCache[call[t].key][1].docs = call[t].ret

\* the queries differ and are equal once lower-cased and trimmed
sameNormalized(a, b) == a # b /\ trim(toLowerCase(a)) = trim(toLowerCase(b))

\* what the last call for each key had left when the call of t began (for
\* its own key), or has left since
earlierCalls(t) ==
    {call[t].prev} \cup {lastCall[k] : k \in Keys \ {call[t].key}}

\* C25: two queries that are equal after trimming and lower-casing share
\* one cache entry: a search for one that begins after a search for the
\* other has returned, less than the TTL after the entry was stored, returns
\* what that search returned and calls no backend
C25_SpellingsShareEntry ==
    \A t \in Searchers : \A p \in earlierCalls(t) :
        (/\ Ended(t)
         /\ p # None
         /\ sameNormalized(p[1].query, call[t].query)
         /\ call[t].startNow - p[1].stamp < CACHE_TTL)
            => /\ call[t].hit
               /\ call[t].ret = p[1].docs
               /\ call[t].durable = "none"
               /\ call[t].ephemeral = "none"
               /\ call[t].ephArgs = None

\* a search for "gfR? " is answered with the documents a backend had found
\* for " GFR?" some time before
C25_OtherSpellingServed ==
    /\ Ended("s1") /\ call["s1"].hit
    /\ call["s1"].query = Q_gfr
    /\ call["s1"].prev # None
    /\ call["s1"].prev[1].query = Q_GFR
    /\ call["s1"].startNow > call["s1"].prev[1].stamp
    /\ call["s1"].ret # <<>>

\* the files of the directory a full sync can load: a supported extension,
\* and a content that can be extracted where extraction is needed
loadableFiles ==
    {f \in eligibleFiles :
        toLowerCase(files[f].ext) \in {E_docx, E_pdf, E_json} => files[f].ok}

\* the records the durable index holds more often than when the run began
gained ==
    {d \in DOMAIN indexRecords :
        indexRecords[d] > (IF d \in DOMAIN uploadBase[1].records
                           THEN uploadBase[1].records[d] ELSE 0)}

\* C26: syncKnowledgeBase called with a specificFile loads that file and no
\* other: at most one file is loaded and counted, and every chunk split,
\* uploaded and indexed has that file as its source; called without it,
\* each loadable file of the corpus directory is loaded, once
C26_OneFileOrAll ==
    Loaded =>
        /\ specificFile # None
            => /\ Len(rawDocs) <= 1
               /\ Range(rawDocs) \subseteq {specificFile[1]} \cap loadableFiles
               /\ \A j \in 1..Len(validDocs) :
                        validDocs[j].source = specificFile[1]
               /\ \A d \in gained : d.source = specificFile[1]
               /\ (syncOutcome # None /\ syncOutcome[1].kind = "returned")
                    => syncOutcome[1].fileCount <= 1
        /\ specificFile = None
            => /\ Range(rawDocs) = loadableFiles
               /\ Len(rawDocs) = Cardinality(loadableFiles)

\* a sync of labs.json alone has returned: one file, its three chunks, and
\* nothing of guide.MD, which a full sync would have loaded
C26_OnlyLabsSynced ==
    /\ pc[SyncTask] = "sync_settled"
    /\ specificFile = Some("labs.json")
    /\ syncOutcome[1] = Returned(3, 1)
    /\ "guide.MD" \in loadableFiles
    /\ gained # {}
    /\ \A d \in gained : d.source = "labs.json"

\* the sources of the documents of a list
sourcesOf(docs) == {docs[j].source : j \in 1..Len(docs)}

\* C27: deleting a corpus file removes the file from the directory and
\* nothing else: the records of the durable index, the ephemeral index and
\* the query cache are as before, and a search that misses the cache
\* afterwards is answered from what its backend holds, deleted files'
\* chunks included
C27_DeleteKeepsIndexes ==
    /\ [][files' # files
            => /\ DOMAIN files' \subseteq DOMAIN files
               /\ \A f \in DOMAIN files' : files'[f] = files[f]
               /\ UNCHANGED <<remoteVars, vectorStore, queryCache>>]_vars
    /\ [](\A t \in Searchers :
            (Ended(t) /\ ~call[t].hit)
                => /\ call[t].durable = "ok"
                        => Range(call[t].ret) \subseteq DOMAIN indexRecords
                   /\ call[t].ephemeral = "ok"
                        => /\ vectorStore # None
                           /\ \E r \in Answers(BagOfSeq(vectorStore[1]),
                                                call[t].topK) :
                                    call[t].ret = rerank(r, call[t].key))

\* a search that began when a.md was no longer in the directory and that
\* the local store answered has returned a chunk of a.md
C27_DeletedFileStillFound ==
    /\ Ended("s1") /\ ~call["s1"].hit
    /\ "a.md" \notin call["s1"].startFiles
    /\ call["s1"].ephemeral = "ok"
    /\ "a.md" \in sourcesOf(call["s1"].ret)

\* C28: every searchDocuments(query, topK) call returns at most topK
\* chunks, whether a backend or the cache answers it
C28_AtMostTopK ==
    \A t \in Searchers :
        (Ended(t) /\ call[t].outcome = "returned")
            => Len(call[t].ret) <= call[t].topK

\* the types of the events of a stream, in order
typesOf(evs) == IF Len(evs) = 0 THEN <<>> ELSE [j \in 1..Len(evs) |-> evs[j].type]

\* a stream that has ended: its last event is done or error and no event
\* before it is; one that is open holds no such event
endsOnce(types) ==
    /\ Len(types) > 0
    /\ types[Len(types)] \in {"done", "error"}
    /\ \A j \in 1..(Len(types) - 1) : types[j] \notin {"done", "error"}
stillOpen(types) == \A j \in 1..Len(types) : types[j] \notin {"done", "error"}

\* upload attempts of the sync run, and progress events of the upload
\* stream, that succeeded
syncBatchesDone ==
    Cardinality({j \in 1..Len(syncLog) : syncLog[j].ev = "upload_ok"})
uploadBatchesDone ==
    Cardinality({j \in 1..Len(upStream) : upStream[j].type = "progress"})

\* C29: the response stream of the sync endpoint and that of the streaming
\* upload endpoint end with exactly one terminal event, done or error, and
\* nothing follows it; while the stream is open no terminal event has been
\* sent; done is sent only after every batch was uploaded, and all
\* progress events precede it
C29_OneTerminalEvent ==
    /\ pc[SyncTask] \in {"sync_load", "sync_split", "sync_upload",
                          "sync_backoff", "sync_delay", "sync_settled"}
            => stillOpen(typesOf(stream))
    /\ pc[SyncTask] = "closed"
            => /\ endsOnce(typesOf(stream))
               /\ \A j \in 1..(Len(stream) - 1) : stream[j].type = "progress"
               /\ stream[Len(stream)].type = "done"
                    => /\ syncOutcome[1].kind = "returned"
                       /\ syncBatchesDone = ceilDiv(Len(validDocs), BATCH_SIZE)
                       /\ \A j \in 1..Len(syncLog) :
                            syncLog[j].ev = "upload_failed"
                                => \E k \in (j + 1)..Len(syncLog) :
                                    syncLog[k] = Ev("upload_ok", syncLog[j].batch,
                                                    syncLog[k].n)
    /\ pc[UploadTask] = "up_upload" \/ pc[UploadTask] = "up_backoff"
            \/ pc[UploadTask] = "up_delay"
            => stillOpen(typesOf(upStream))
    /\ (pc[UploadTask] = "closed" /\ upDocs # <<>>)
            => /\ endsOnce(typesOf(upStream))
               /\ upStream[Len(upStream)].type = "done"
                    => /\ uploadBatchesDone
                            = ceilDiv(Len(upDocs), UPLOAD_BATCH_SIZE)
                       /\ upStream[Len(upStream) - 1].type = "progress"
                       /\ upStream[Len(upStream) - 1].a = Len(upDocs)

\* the sync stream has ended with error after the reports of three
\* retries, and the upload stream that followed has ended with done after
\* the progress events of its two batches
C29_ErrorThenDone ==
    /\ pc[SyncTask] = "closed" /\ pc[UploadTask] = "closed"
    /\ Len(stream) >= 4 /\ stream[Len(stream)].type = "error"
    /\ upStream # <<>> /\ upStream[Len(upStream)].type = "done"
    /\ uploadBatchesDone = 2

\* the upload calls of the current sync run made for batch b
attemptsOf(b) == SelectSeq(attempts, LAMBDA e : e.batch = b)
InBatchLoop == pc[SyncTask] \in {"sync_upload", "sync_backoff", "sync_delay"}

\* C30: when every upload call returns and every delay elapses, a sync run
\* that entered the batch loop over N valid chunks leaves it, returning or
\* raising, and has made at most 4 * ceil(N / BATCH_SIZE) upload calls, at
\* most 4 of them (MAX_RETRIES + 1) for any one batch
C30_RunTerminates ==
    /\ [](/\ Len(attempts) <= (MAX_RETRIES + 1) * ceilDiv(Len(validDocs), BATCH_SIZE)
          /\ \A b \in 1..ceilDiv(Len(validDocs), BATCH_SIZE) :
                Len(attemptsOf(b)) <= MAX_RETRIES + 1)
    /\ (InBatchLoop ~> pc[SyncTask] = "sync_settled")

\* a run has raised after the fourth attempt of its second batch, the
\* first batch having needed more than one attempt
C30_FourthAttemptRaised ==
    /\ pc[SyncTask] = "sync_settled"
    /\ syncOutcome # None /\ syncOutcome[1].kind = "raised"
    /\ Len(attemptsOf(2)) = MAX_RETRIES + 1
    /\ Len(attemptsOf(1)) > 1

\* C31: in every progress report of a sync run chunksIndexed lies in
\* 0..totalChunks, percent in 0..100, batch in 0..totalBatches, and
\* totalBatches is ceil(totalChunks / BATCH_SIZE); chunksIndexed and batch
\* do not decrease from one report to the next; the last report of a run
\* that returned with totalChunks > 0 has chunksIndexed = totalChunks and
\* percent = 100
C31_ReportsInRange ==
    /\ \A j \in 1..Len(reports) :
            /\ 0 <= reports[j].chunksIndexed
            /\ reports[j].chunksIndexed <= reports[j].totalChunks
            /\ 0 <= reports[j].percent /\ reports[j].percent <= 100
            /\ 0 <= reports[j].batch
            /\ reports[j].batch <= reports[j].totalBatches
            /\ reports[j].totalBatches
                    = ceilDiv(reports[j].totalChunks, BATCH_SIZE)
    /\ \A j \in 1..(Len(reports) - 1) :
            /\ reports[j].chunksIndexed <= reports[j + 1].chunksIndexed
            /\ reports[j].batch <= reports[j + 1].batch
    /\ (/\ pc[SyncTask] \in {"sync_settled", "closed"}
        /\ syncOutcome # None /\ syncOutcome[1].kind = "returned"
        /\ syncOutcome[1].totalChunks > 0)
            => /\ Len(reports) > 0
               /\ reports[Len(reports)].chunksIndexed
                    = reports[Len(reports)].totalChunks
               /\ reports[Len(reports)].percent = 100

\* a run over three batches, the last one short, has returned after
\* retries: start, three successes and at least two retry reports
C31_ReturnedAfterRetries ==
    /\ pc[SyncTask] = "sync_settled"
    /\ syncOutcome # None /\ syncOutcome[1].kind = "returned"
    /\ Len(reports) >= 6
    /\ reports[Len(reports)].batch = 3
    /\ reports[Len(reports)].totalChunks % BATCH_SIZE # 0
    /\ \E j \in 1..Len(reports) :
            reports[j].status # <<>> /\ reports[j].percent \notin {0, 100}

\* the task is suspended inside getPineconeStore
InStore(t) ==
    pc[t] \in {"init_describe", "init_delete", "init_wait", "init_create",
               "init_create_catch", "gps_construct"}

\* this step is the first of a getPineconeStore call of task t
entersStore(t) ==
    IF t \in Searchers
    THEN pc[t] = "idle" /\ pc'[t] # "idle" /\ ~call'[t].hit
            /\ isPineconeConfigured
    ELSE pc[t] = "sync_split" /\ pc'[t] # "sync_split"

\* this step ends a getPineconeStore call of task t
leavesStore(t) == (entersStore(t) \/ InStore(t)) /\ ~InStore(t)'

\* C32: a getPineconeStore call that fails caches no handle, and a call
\* made while no handle is memoized attempts the initialisation again;
\* a call made after one has succeeded returns at once the handle that
\* the finished calls were given
C32_FailureNotMemoized ==
    [][\A t \in Searchers \cup {SyncTask} :
        /\ (leavesStore(t) /\ handle'[t] = 0) => cachedStore' = cachedStore
        /\ (entersStore(t) /\ storeOks = 0 /\ apiKey # "unset")
                => initRuns' = initRuns + 1 \/ storeBuilds' = storeBuilds + 1
        /\ (entersStore(t) /\ storeOks > 0)
                => /\ leavesStore(t)
                   /\ handle'[t] # 0
                   /\ storeBuilds' = storeBuilds /\ initRuns' = initRuns
                   /\ \A u \in Tasks \ {t} :
                        (handle[u] # 0 /\ ~InStore(u)) => handle'[t] = handle[u]
      ]_vars

\* this step ends loadLocalDocuments with no document
loadedNothing ==
    /\ pc[SyncTask] = "sync_load" /\ pc'[SyncTask] # "sync_load"
    /\ Len(loadLocalDocuments(files, specificFile)) = 0

\* C33: when loadLocalDocuments gives no document (the directory is empty
\* or missing, holds only unsupported or unparseable files, or the named
\* file does not exist) syncKnowledgeBase returns {totalChunks: 0,
\* fileCount: 0} at once: the durable index and the memoized handle are
\* not touched and no progress report is made
C33_NothingLoadedNothingDone ==
    /\ [][loadedNothing
            => /\ pc'[SyncTask] = "sync_settled"
               /\ syncOutcome' = Some(Returned(0, 0))
               /\ reports' = <<>> /\ syncLog' = <<>>
               /\ UNCHANGED <<remoteVars, memoVars>>]_vars
    /\ []((pc[SyncTask] \in {"sync_settled", "closed"} /\ rawDocs = <<>>
            /\ syncOutcome # None)
            => /\ syncOutcome = Some(Returned(0, 0))
               /\ reports = <<>>
               /\ uploadBase = Some(IndexSnapshot)
               /\ \A j \in 1..Len(stream) : stream[j].type = "done")

\* after a run that indexed the directory, a run for a file that cannot
\* be parsed has returned zero without a report or a call
C33_SecondRunLoadedNothing ==
    /\ pc[SyncTask] = "closed"
    /\ Len(runLog) = 2
    /\ runLog[1].outcome.totalChunks > 0
    /\ specificFile = Some("bad.pdf")
    /\ runLog[2].outcome = Returned(0, 0)
    /\ reports = <<>>
    /\ initRuns = 1

\* C34: while PINECONE_API_KEY is unset or the placeholder, searchDocuments
\* does not contact the durable backend: no call is inside getPineconeStore
\* or the durable search, initializePinecone has never run, no handle has
\* been built, the index is as it was, and every call that went past the
\* cache used the ephemeral index alone
C34_UnconfiguredStaysLocal ==
    apiKey \in {"unset", "placeholder"} =>
        /\ initRuns = 0 /\ storeBuilds = 0 /\ cachedStore = 0
        /\ ~isIndexReady /\ ~isInitialized
        /\ indexExists /\ indexDim = GEMINI_DIMENSION
        /\ indexRecords = PriorRecords
        /\ \A t \in Searchers :
                /\ ~InStore(t) /\ pc[t] # "durable_search"
                /\ call[t].durable = "none"
                /\ Missed(t) => call[t].ephemeral \in {"ok", "failed"}

\* with the placeholder key, a call was answered by the ephemeral index,
\* and so was one before it
C34_PlaceholderAnsweredLocally ==
    /\ apiKey = "placeholder"
    /\ Missed("s1")
    /\ call["s1"].ephemeral = "ok" /\ call["s1"].ret # <<>>
    /\ callsLeft < MaxCalls - 1

\* this step ends a search for key k that went past the cache
savesKey(k) ==
    \E t \in Searchers :
        /\ pc[t] # "done" /\ pc'[t] = "done"
        /\ call'[t].key = k /\ ~call'[t].hit

\* C35: the query cache is never evicted: a key that is in the map stays
\* in it, and an entry, expired or not, is changed only by the return of
\* a search for its key that went past the cache, which stores a new one
C35_CacheOnlyGrows ==
    [][\A k \in Keys :
        /\ queryCache[k] # None => queryCache'[k] # None
        /\ queryCache'[k] # queryCache[k]
                => /\ savesKey(k)
                   /\ queryCache'[k] # None
                   /\ queryCache'[k][1].timestamp = now
      ]_vars

\* an entry that expired is still in the map after a search for another
\* key has stored its own entry
C35_ExpiredEntryKept ==
    \E k, l \in Keys :
        /\ k # l
        /\ queryCache[k] # None /\ ~cacheFresh(queryCache[k])
        /\ queryCache[l] # None /\ queryCache[l][1].timestamp = now

\* C36: in every state of the handle memoization, whatever the
\* interleaving of concurrent getPineconeStore calls, isInitialized
\* implies that isIndexReady holds and that cachedStore is not null
C36_InitializedImpliesReady ==
    isInitialized => isIndexReady /\ cachedStore # 0
====
